---- MODULE Spec2Model ----
(***************************************************************************)
(* Verification model of gazpacho22/cuenta (expense_bot).                  *)
(*                                                                         *)
(* Two state machines share this module:                                   *)
(*   QueueSpec : the SQLite retry queue (integrations/retry_queue.py) used *)
(*               by concurrent workers;                                    *)
(*   Spec      : one conversation thread driven through the LangGraph      *)
(*               nodes (graph/builder.py, graph/nodes.py) and the posting  *)
(*               helper (graph/posting.py).                                *)
(* SerialQueueSpec runs the queue with more jobs and no overlapping calls, *)
(* WindowSpec runs a thread longer than its message window.  Further       *)
(* specifications drive single parts: ResolveSpec, RankSpec, DraftSpec,    *)
(* AttemptSpec and PostingSpec the conversation, MiddlewareSpec the        *)
(* Telegram allow-list, RetryWorkerSpec and PollingSpec (with weak         *)
(* fairness) the workers of the retry queue.                               *)
(* Optional values are encoded as <<>> (None / SQL NULL) or <<v>>.         *)
(* Datetimes are whole numbers of ticks (see TicksPerSecond).              *)
(***************************************************************************)
EXTENDS Integers, Sequences, FiniteSets, TLC

VARIABLES
    \* ---- retry queue (table retry_jobs and its callers) ----
    retry_jobs,     \* id -> row of table retry_jobs
    next_id,        \* AUTOINCREMENT: the largest id handed out so far
    clock,          \* wall clock, in ticks
    worker,         \* worker -> where it stands inside acquire_due_job
    returned,       \* history: id -> workers the job was returned to since its last release
    last,           \* the last repository call and its outcome
    \* ---- conversation thread (ConversationState and the graph run) ----
    messages,
    expense_draft,
    clarifications_needed,
    account_candidates,
    confirmation_status,
    erpnext_submission,
    error_log,
    pending_message,
    pending_user_id,
    chart_of_accounts_override,
    allowed_users,  \* settings.telegram_allowed_users, fixed at graph construction
    pc,             \* the graph node about to run, or "idle" between calls
    outcome,        \* how the last call ended: a return value or the exception raised
    submitted,      \* payloads handed to ERPNextClient.post_journal_entry, in order
    calls,          \* number of calls made on the thread so far
    accepted        \* history: the user messages the entry node accepted, in order

queue_vars == <<retry_jobs, next_id, clock, worker, returned, last>>

conv_vars == <<messages, expense_draft, clarifications_needed, account_candidates,
               confirmation_status, erpnext_submission, error_log, pending_message,
               pending_user_id, chart_of_accounts_override, allowed_users, pc,
               outcome, submitted, calls, accepted>>

vars == <<queue_vars, conv_vars>>

None == <<>>
Some(x) == <<x>>
NULL == "NULL"

(***************************************************************************)
(* Bounds of the model.                                                    *)
(***************************************************************************)
MaxJobs == 1
MaxTime == 2
MaxFailures == 1
MaxCalls == 3
MaxTurns == 7
MaxQueued == 2
MaxLimit == 3
MaxPosts == 2

(***************************************************************************)
(* Program constants.                                                      *)
(***************************************************************************)
MAX_RECENT_MESSAGES == 6
MAX_RETRY_ATTEMPTS == 5
AUTO_SELECTION_THRESHOLD == 85
MAX_ACCOUNT_SUGGESTIONS == 5
MIN_CANDIDATE_CONFIDENCE == 50

(***************************************************************************)
(*                         RETRY QUEUE                                     *)
(* A datetime is a whole number of ticks, TicksPerSecond ticks to the      *)
(* second; the table stores datetimes as ISO text of whole seconds.        *)
(***************************************************************************)
Workers == {"worker-a", "worker-b"}
EmptyLockId == ""
LockIds == Workers \cup {EmptyLockId}
Times == 0..MaxTime
JobIds == 1..MaxJobs

\* resolution of the datetimes passed in, finer than the stored whole seconds
TicksPerSecond == 2

\* _serialize_datetime: value.replace(microsecond=0).isoformat()
_serialize_datetime(value) == value - (value % TicksPerSecond)

\* payload values: JSON-native text, or a Decimal that json.dumps can only
\* write through _json_default
Payloads == { <<"str", "JE-1">>, <<"Decimal", "10.00">> }

\* _serialize_payload followed by json.loads: _json_default turns a
\* datetime, date or Decimal into text, and text is what json.loads gives back
_serialize_payload(payload) ==
    IF payload[1] \in {"Decimal", "date", "datetime"}
    THEN <<"str", payload[2]>>
    ELSE payload

\* RetryJob values a caller may pass to enqueue: RetryJob.__post_init__
\* admits attempts in 0..MAX_RETRY_ATTEMPTS (0 is the default)
RetryJob ==
    [thread_id : {"chat:1", "chat:2"}, payload : Payloads,
     attempts : {0, MAX_RETRY_ATTEMPTS}, next_run_at : Times, error : {NULL}]

\* RetryJob.__post_init__ accepts the attempts value
AttemptsAdmitted(attempts) == attempts >= 0 /\ attempts <= MAX_RETRY_ATTEMPTS

is_exhausted(job) == job.attempts >= MAX_RETRY_ATTEMPTS

Without(f, j) == [k \in (DOMAIN f) \ {j} |-> f[k]]

\* a repository call and how it ended; job is the RetryJob it returned, if
\* any, and arg the values the caller passed besides the ids
CallReturning(op, job_id, lock_id, result, job) ==
    [op |-> op, job_id |-> job_id, lock_id |-> lock_id, result |-> result,
     job |-> job, arg |-> None]

WithArg(call, arg) == [call EXCEPT !.arg = Some(arg)]

Call(op, job_id, lock_id, result) == CallReturning(op, job_id, lock_id, result, None)

QueueInit ==
    /\ retry_jobs = <<>>
    /\ next_id = 0
    /\ clock = 0
    /\ worker = [w \in Workers |-> [pc |-> "idle", job_id |-> 0, current |-> 0]]
    /\ returned = <<>>
    /\ last = Call("init", 0, EmptyLockId, "ok")

\* _row_to_job: the RetryJob built from a row (it carries no lock fields)
_row_to_job(job_id, row) ==
    [id |-> job_id, thread_id |-> row.thread_id, payload |-> row.payload,
     attempts |-> row.attempts, next_run_at |-> row.next_run_at, error |-> row.error]

\* the outcome of reading a row back: RetryJob(...) raises for attempts above the cap
ReadBack(op, job_id, lock_id, row) ==
    IF AttemptsAdmitted(row.attempts)
    THEN CallReturning(op, job_id, lock_id, "job", Some(_row_to_job(job_id, row)))
    ELSE Call(op, job_id, lock_id, "ValueError")

\* cursor.lastrowid of an INTEGER PRIMARY KEY without AUTOINCREMENT: one more
\* than the largest id in the table
lastrowid_without_autoincrement ==
    IF DOMAIN retry_jobs = {} THEN 1
    ELSE 1 + CHOOSE j \in DOMAIN retry_jobs : \A k \in DOMAIN retry_jobs : k <= j

\* cursor.lastrowid of the INSERT: id INTEGER PRIMARY KEY AUTOINCREMENT gives
\* one more than the largest id the table ever held
lastrowid == next_id + 1

\* enqueue: INSERT INTO retry_jobs (thread_id, payload, attempts, next_run_at,
\* error); the row starts unlocked; returns replace(job, id=job_id)
Insert(job) ==
    /\ LET job_id == lastrowid IN
       /\ retry_jobs' = retry_jobs @@
              (job_id :> [thread_id |-> job.thread_id,
                          payload |-> _serialize_payload(job.payload),
                          attempts |-> job.attempts,
                          next_run_at |-> _serialize_datetime(job.next_run_at),
                          error |-> job.error, locked_by |-> NULL, locked_at |-> None])
       /\ next_id' = job_id
       /\ returned' = returned @@ (job_id :> {})
       /\ last' = WithArg(CallReturning("enqueue", job_id, EmptyLockId, "job",
                                        Some([id |-> job_id] @@ job)), job)
    /\ UNCHANGED <<clock, worker, conv_vars>>

enqueue(job) == next_id < MaxJobs /\ Insert(job)

\* get: SELECT * FROM retry_jobs WHERE id = ?
get(job_id) ==
    /\ last' = IF job_id \in DOMAIN retry_jobs
               THEN ReadBack("get", job_id, EmptyLockId, retry_jobs[job_id])
               ELSE Call("get", job_id, EmptyLockId, "None")
    /\ UNCHANGED <<retry_jobs, next_id, clock, worker, returned, conv_vars>>

\* WHERE locked_by IS NULL AND next_run_at <= ?
Due(current) ==
    {j \in DOMAIN retry_jobs :
        retry_jobs[j].locked_by = NULL /\ retry_jobs[j].next_run_at <= current}

\* ORDER BY id ASC LIMIT 1
FirstDueById(current) ==
    CHOOSE j \in Due(current) : \A k \in Due(current) : j <= k

\* ORDER BY next_run_at ASC, id ASC LIMIT 1
FirstDue(current) ==
    CHOOSE j \in Due(current) :
        \A k \in Due(current) :
            \/ retry_jobs[j].next_run_at < retry_jobs[k].next_run_at
            \/ (retry_jobs[j].next_run_at = retry_jobs[k].next_run_at /\ j <= k)

\* the conditional UPDATE's WHERE clause: id = ? AND locked_by IS NULL
AcquireUpdateMatchesUnguarded(job_id) == job_id \in DOMAIN retry_jobs

AcquireUpdateMatches(job_id) ==
    job_id \in DOMAIN retry_jobs /\ retry_jobs[job_id].locked_by = NULL

\* acquire_due_job called with an empty lock id
acquire_due_job_no_lock_id ==
    /\ last' = Call("acquire_due_job", 0, EmptyLockId, "ValueError")
    /\ UNCHANGED <<retry_jobs, next_id, clock, worker, returned, conv_vars>>

\* acquire_due_job, first statement: SELECT id ... LIMIT 1, with
\* current = _serialize_datetime(now)
acquire_due_job_select(w) ==
    /\ worker[w].pc = "idle"
    /\ LET current == _serialize_datetime(clock) IN
       IF Due(current) = {}
       THEN /\ last' = Call("acquire_due_job", 0, w, "None")
            /\ UNCHANGED worker
       ELSE /\ worker' = [worker EXCEPT ![w] =
                            [pc |-> "selected", job_id |-> FirstDue(current),
                             current |-> current]]
            /\ last' = Call("acquire_due_job.select", FirstDue(current), w, "row")
    /\ UNCHANGED <<retry_jobs, next_id, clock, returned, conv_vars>>

\* acquire_due_job, second statement: the conditional UPDATE, then the
\* read-back of the row (which raises when the row's attempts exceed the cap)
acquire_due_job_update_ignoring_rowcount(w) ==
    /\ worker[w].pc = "selected"
    /\ LET job_id == worker[w].job_id IN
       IF AcquireUpdateMatches(job_id)
       THEN /\ retry_jobs' = [retry_jobs EXCEPT ![job_id].locked_by = w,
                                                ![job_id].locked_at = Some(worker[w].current)]
            /\ last' = ReadBack("acquire_due_job", job_id, w, retry_jobs[job_id])
            /\ returned' = IF AttemptsAdmitted(retry_jobs[job_id].attempts)
                           THEN [returned EXCEPT ![job_id] = @ \cup {w}]
                           ELSE returned
       ELSE IF job_id \in DOMAIN retry_jobs
       THEN /\ last' = ReadBack("acquire_due_job", job_id, w, retry_jobs[job_id])
            /\ returned' = IF AttemptsAdmitted(retry_jobs[job_id].attempts)
                           THEN [returned EXCEPT ![job_id] = @ \cup {w}]
                           ELSE returned
            /\ UNCHANGED retry_jobs
       ELSE /\ last' = Call("acquire_due_job", job_id, w, "None")
            /\ UNCHANGED <<retry_jobs, returned>>
    /\ worker' = [worker EXCEPT ![w] = [pc |-> "idle", job_id |-> 0, current |-> 0]]
    /\ UNCHANGED <<next_id, clock, conv_vars>>

acquire_due_job_update(w) ==
    /\ worker[w].pc = "selected"
    /\ LET job_id == worker[w].job_id IN
       IF AcquireUpdateMatches(job_id)
       THEN /\ retry_jobs' = [retry_jobs EXCEPT ![job_id].locked_by = w,
                                                ![job_id].locked_at = Some(worker[w].current)]
            /\ last' = ReadBack("acquire_due_job", job_id, w, retry_jobs[job_id])
            /\ returned' = IF AttemptsAdmitted(retry_jobs[job_id].attempts)
                           THEN [returned EXCEPT ![job_id] = @ \cup {w}]
                           ELSE returned
       ELSE /\ last' = Call("acquire_due_job", job_id, w, "None")
            /\ UNCHANGED <<retry_jobs, returned>>
    /\ worker' = [worker EXCEPT ![w] = [pc |-> "idle", job_id |-> 0, current |-> 0]]
    /\ UNCHANGED <<next_id, clock, conv_vars>>

\* mark_failure's WHERE clause: id = ? AND locked_by = ?
MarkFailureMatchesAnyLock(job_id, lock_id) == job_id \in DOMAIN retry_jobs

MarkFailureMatches(job_id, lock_id) ==
    job_id \in DOMAIN retry_jobs /\ retry_jobs[job_id].locked_by = lock_id

\* failures recorded on a row so far (bounds the model only)
FailuresSoFar(job_id) ==
    IF job_id \in DOMAIN retry_jobs THEN retry_jobs[job_id].attempts ELSE 0

\* the row mark_failure's UPDATE leaves behind, with the lock kept
FailedRowStillLocked(row, error, next_run_at) ==
    [row EXCEPT !.attempts = @ + 1,
                !.next_run_at = _serialize_datetime(next_run_at),
                !.error = error]

\* SET attempts = attempts + 1, next_run_at = ?, error = ?, locked_by = NULL,
\* locked_at = NULL
FailedRow(row, error, next_run_at) ==
    [row EXCEPT !.attempts = @ + 1,
                !.next_run_at = _serialize_datetime(next_run_at),
                !.error = error,
                !.locked_by = NULL,
                !.locked_at = None]

\* mark_failure: the UPDATE is committed before the row is read back
mark_failure(job_id, lock_id, error, next_run_at) ==
    /\ lock_id \in Workers => worker[lock_id].pc = "idle"
    /\ (lock_id \in Workers /\ MarkFailureMatches(job_id, lock_id))
           => FailuresSoFar(job_id) < MAX_RETRY_ATTEMPTS + MaxFailures
    /\ IF lock_id = EmptyLockId
       THEN /\ last' = Call("mark_failure", job_id, lock_id, "ValueError")
            /\ UNCHANGED <<retry_jobs, returned>>
       ELSE IF MarkFailureMatches(job_id, lock_id)
       THEN /\ retry_jobs' = [retry_jobs EXCEPT ![job_id] =
                                 FailedRow(@, error, next_run_at)]
            /\ returned' = [returned EXCEPT ![job_id] = {}]
            /\ last' = WithArg(ReadBack("mark_failure", job_id, lock_id,
                                        FailedRow(retry_jobs[job_id], error, next_run_at)),
                               [error |-> error, next_run_at |-> next_run_at])
       ELSE /\ last' = WithArg(Call("mark_failure", job_id, lock_id, "RetryQueueError"),
                               [error |-> error, next_run_at |-> next_run_at])
            /\ UNCHANGED <<retry_jobs, returned>>
    /\ UNCHANGED <<next_id, clock, worker, conv_vars>>

\* mark_success's WHERE clause: id = ? AND locked_by = ?
MarkSuccessMatchesAnyLock(job_id, lock_id) == job_id \in DOMAIN retry_jobs

MarkSuccessMatches(job_id, lock_id) ==
    job_id \in DOMAIN retry_jobs /\ retry_jobs[job_id].locked_by = lock_id

\* mark_success that releases the row's lock in place of deleting the row
mark_success_unlocking(job_id, lock_id) ==
    /\ lock_id \in Workers => worker[lock_id].pc = "idle"
    /\ IF lock_id = EmptyLockId
       THEN /\ last' = Call("mark_success", job_id, lock_id, "ValueError")
            /\ UNCHANGED <<retry_jobs, returned>>
       ELSE IF MarkSuccessMatches(job_id, lock_id)
       THEN /\ retry_jobs' = [retry_jobs EXCEPT ![job_id].locked_by = NULL,
                                                ![job_id].locked_at = None]
            /\ returned' = [returned EXCEPT ![job_id] = {}]
            /\ last' = Call("mark_success", job_id, lock_id, "ok")
       ELSE /\ last' = Call("mark_success", job_id, lock_id, "RetryQueueError")
            /\ UNCHANGED <<retry_jobs, returned>>
    /\ UNCHANGED <<next_id, clock, worker, conv_vars>>

mark_success(job_id, lock_id) ==
    /\ lock_id \in Workers => worker[lock_id].pc = "idle"
    /\ IF lock_id = EmptyLockId
       THEN /\ last' = Call("mark_success", job_id, lock_id, "ValueError")
            /\ UNCHANGED <<retry_jobs, returned>>
       ELSE IF MarkSuccessMatches(job_id, lock_id)
       THEN /\ retry_jobs' = Without(retry_jobs, job_id)
            /\ returned' = Without(returned, job_id)
            /\ last' = Call("mark_success", job_id, lock_id, "ok")
       ELSE /\ last' = Call("mark_success", job_id, lock_id, "RetryQueueError")
            /\ UNCHANGED <<retry_jobs, returned>>
    /\ UNCHANGED <<next_id, clock, worker, conv_vars>>

\* reset_lock that also makes the job due at once
reset_lock_rescheduling(job_id) ==
    /\ IF job_id \in DOMAIN retry_jobs
       THEN /\ retry_jobs' = [retry_jobs EXCEPT ![job_id].locked_by = NULL,
                                                ![job_id].locked_at = None,
                                                ![job_id].next_run_at = 0]
            /\ returned' = [returned EXCEPT ![job_id] = {}]
       ELSE UNCHANGED <<retry_jobs, returned>>
    /\ last' = Call("reset_lock", job_id, EmptyLockId, "ok")
    /\ UNCHANGED <<next_id, clock, worker, conv_vars>>

reset_lock(job_id) ==
    /\ IF job_id \in DOMAIN retry_jobs
       THEN /\ retry_jobs' = [retry_jobs EXCEPT ![job_id].locked_by = NULL,
                                                ![job_id].locked_at = None]
            /\ returned' = [returned EXCEPT ![job_id] = {}]
       ELSE UNCHANGED <<retry_jobs, returned>>
    /\ last' = Call("reset_lock", job_id, EmptyLockId, "ok")
    /\ UNCHANGED <<next_id, clock, worker, conv_vars>>

delete(job_id) ==
    /\ IF job_id \in DOMAIN retry_jobs
       THEN /\ retry_jobs' = Without(retry_jobs, job_id)
            /\ returned' = Without(returned, job_id)
       ELSE UNCHANGED <<retry_jobs, returned>>
    /\ last' = Call("delete", job_id, EmptyLockId, "ok")
    /\ UNCHANGED <<next_id, clock, worker, conv_vars>>

\* datetime.now(UTC) moves on
Tick ==
    /\ clock < MaxTime
    /\ clock' = clock + 1
    /\ last' = Call("tick", 0, EmptyLockId, "ok")
    /\ UNCHANGED <<retry_jobs, next_id, worker, returned, conv_vars>>

QueueNext ==
    \/ \E job \in RetryJob : enqueue(job)
    \/ \E j \in JobIds : get(j)
    \/ acquire_due_job_no_lock_id
    \/ \E w \in Workers : acquire_due_job_select(w)
    \/ \E w \in Workers : acquire_due_job_update(w)
    \/ \E j \in JobIds, l \in LockIds, t \in Times : mark_failure(j, l, "503", t)
    \/ \E j \in JobIds, l \in LockIds : mark_success(j, l)
    \/ \E j \in JobIds : reset_lock(j)
    \/ \E j \in JobIds : delete(j)
    \/ Tick

(***************************************************************************)
(*                         TEXT                                            *)
(* A text is a sequence of one-character strings.                          *)
(***************************************************************************)
UpperCase ==
    <<"A","B","C","D","E","F","G","H","I","J","K","L","M",
      "N","O","P","Q","R","S","T","U","V","W","X","Y","Z">>

LowerCase ==
    <<"a","b","c","d","e","f","g","h","i","j","k","l","m",
      "n","o","p","q","r","s","t","u","v","w","x","y","z">>

Whitespace == {" ", "\t", "\n"}

\* str.lower(), one character
LowerChar(c) ==
    IF \E i \in 1..Len(UpperCase) : UpperCase[i] = c
    THEN LowerCase[CHOOSE i \in 1..Len(UpperCase) : UpperCase[i] = c]
    ELSE c

\* str.lower()
lower(text) == [i \in 1..Len(text) |-> LowerChar(text[i])]

RECURSIVE lstrip(_)
lstrip(text) ==
    IF text # <<>> /\ Head(text) \in Whitespace THEN lstrip(Tail(text)) ELSE text

RECURSIVE rstrip(_)
rstrip(text) ==
    IF text # <<>> /\ text[Len(text)] \in Whitespace
    THEN rstrip(SubSeq(text, 1, Len(text) - 1))
    ELSE text

\* str.strip()
strip(text) == rstrip(lstrip(text))

\* normalized = (user_input or "").strip().lower()
normalize_without_lower(user_input) == strip(user_input)

normalize(user_input) == lower(strip(user_input))

CONFIRM_COMMANDS ==
    { <<"c","o","n","f","i","r","m">>, <<"c","o","n","f","i","r","m","e","d">>,
      <<"a","p","p","r","o","v","e">>, <<"a","p","p","r","o","v","e","d">>,
      <<"y","e","s">>, <<"y">> }

CANCEL_COMMANDS ==
    { <<"c","a","n","c","e","l">>, <<"c","a","n","c","e","l","l","e","d">>,
      <<"r","e","j","e","c","t">>, <<"r","e","j","e","c","t","e","d">>,
      <<"s","t","o","p">>, <<"n","o">>, <<"n">> }

EDIT_COMMANDS ==
    { <<"e","d","i","t">>, <<"c","h","a","n","g","e">>,
      <<"u","p","d","a","t","e">>, <<"r","e","v","i","s","e">> }

(***************************************************************************)
(*                         MESSAGES AND PARSER                             *)
(* The messages a user may send.  text is the raw message; amount,         *)
(* debit_hint and credit_hint are what the parser's regular expressions    *)
(* extract from it (_extract_amount_and_currency, _extract_debit_hint,     *)
(* _extract_credit_hint).  Messages are referred to by their index.        *)
(***************************************************************************)
\* "Paid $10 cash for taxi", blanks and a full stop
PaddedTaxi(blanks) ==
    <<"P","a","i","d"," ","$","1","0"," ","c","a","s","h"," ",
      "f","o","r"," ","t","a","x","i">> \o [i \in 1..blanks |-> " "] \o <<".">>

MessageTable ==
    << \* "Paid $10 cash for taxi"
       [text |-> <<"P","a","i","d"," ","$","1","0"," ","c","a","s","h"," ",
                   "f","o","r"," ","t","a","x","i">>,
        amount |-> Some(10), currency |-> "USD",
        debit_hint |-> "taxi", credit_hint |-> "cash"],
       \* "Paid cash for taxi"
       [text |-> <<"P","a","i","d"," ","c","a","s","h"," ",
                   "f","o","r"," ","t","a","x","i">>,
        amount |-> None, currency |-> "USD",
        debit_hint |-> "taxi", credit_hint |-> NULL],
       \* "$0 cash for taxi"
       [text |-> <<"$","0"," ","c","a","s","h"," ","f","o","r"," ","t","a","x","i">>,
        amount |-> Some(0), currency |-> "USD",
        debit_hint |-> "taxi", credit_hint |-> "cash"],
       \* " YES "
       [text |-> <<" ","Y","E","S"," ">>,
        amount |-> None, currency |-> "USD", debit_hint |-> NULL, credit_hint |-> NULL],
       \* "Confirm"
       [text |-> <<"C","o","n","f","i","r","m">>,
        amount |-> None, currency |-> "USD", debit_hint |-> NULL, credit_hint |-> NULL],
       \* "No "
       [text |-> <<"N","o"," ">>,
        amount |-> None, currency |-> "USD", debit_hint |-> NULL, credit_hint |-> NULL],
       \* "Edit"
       [text |-> <<"E","d","i","t">>,
        amount |-> None, currency |-> "USD", debit_hint |-> NULL, credit_hint |-> NULL],
       \* "bogus"
       [text |-> <<"b","o","g","u","s">>,
        amount |-> None, currency |-> "USD", debit_hint |-> NULL, credit_hint |-> NULL],
       \* "  "
       [text |-> <<" "," ">>,
        amount |-> None, currency |-> "USD", debit_hint |-> NULL, credit_hint |-> NULL],
       \* "Paid $10 cash for taxi" + 477 blanks + ".": 500 characters
       [text |-> PaddedTaxi(477),
        amount |-> Some(10), currency |-> "USD",
        debit_hint |-> "taxi", credit_hint |-> "cash"],
       \* "Paid $10 cash for taxi" + 478 blanks + ".": 501 characters
       [text |-> PaddedTaxi(478),
        amount |-> Some(10), currency |-> "USD",
        debit_hint |-> "taxi", credit_hint |-> "cash"] >>

\* the messages of an everyday thread: all but the two long ones
Messages == 1..(Len(MessageTable) - 2)

Text(m) == MessageTable[m].text

\* sorted(parsed.missing_fields): lexicographic order of the three field names
SortedFieldNames == <<"amount", "credit_account", "debit_account">>

RECURSIVE Sorted(_, _)
Sorted(fields, i) ==
    IF i > Len(SortedFieldNames) THEN <<>>
    ELSE (IF SortedFieldNames[i] \in fields THEN <<SortedFieldNames[i]>> ELSE <<>>)
         \o Sorted(fields, i + 1)

\* state.pending_message_id: the caller sets it together with pending_message,
\* the id of the update that carried the message
pending_message_id(m) == m

\* parse_expense_text: narration is the stripped message, missing_fields the
\* fields whose extraction came back None
parse_expense_text(m) ==
    [amount |-> MessageTable[m].amount,
     source_message_id |-> pending_message_id(m),
     currency |-> MessageTable[m].currency,
     narration |-> m,
     debit_hint |-> MessageTable[m].debit_hint,
     credit_hint |-> MessageTable[m].credit_hint,
     missing_fields |->
         (IF MessageTable[m].amount = None THEN {"amount"} ELSE {})
         \cup (IF MessageTable[m].debit_hint = NULL THEN {"debit_account"} ELSE {})
         \cup (IF MessageTable[m].credit_hint = NULL THEN {"credit_account"} ELSE {})]

\* len(self.narration) of a draft built from message m
NarrationLength(m) == Len(strip(Text(m)))

(***************************************************************************)
(*                         ACCOUNT RANKING                                 *)
(* A chart-of-accounts row carries, per query hint, the similarity (in     *)
(* percent) that rapidfuzz gives the row for the query built from that     *)
(* hint: the library's scores are inputs of the model.                     *)
(***************************************************************************)
CatalogHQ ==
    << [account_code |-> "5110", account_name |-> "Taxi Expense - HQ",
        similarity |-> [taxi |-> 100, cash |-> 30]],
       [account_code |-> "1000", account_name |-> "Cash - HQ",
        similarity |-> [taxi |-> 20, cash |-> 100]] >>

CatalogAmbiguous ==
    << [account_code |-> "5100", account_name |-> "Travel",
        similarity |-> [taxi |-> 70, cash |-> 40]],
       [account_code |-> "5200", account_name |-> "Transport",
        similarity |-> [taxi |-> 70, cash |-> 45]],
       [account_code |-> "1100", account_name |-> "Bank",
        similarity |-> [taxi |-> 10, cash |-> 60]] >>

CatalogMixed ==
    << [account_code |-> "5110", account_name |-> "Taxi Expense - HQ",
        similarity |-> [taxi |-> 100, cash |-> 30]],
       [account_code |-> "1100", account_name |-> "Bank",
        similarity |-> [taxi |-> 10, cash |-> 60]] >>

EmptyCatalog == <<>>

\* rows whose codes are the digits of a position in the list
CatalogNumbered ==
    << [account_code |-> "2", account_name |-> "Travel",
        similarity |-> [taxi |-> 70, cash |-> 40]],
       [account_code |-> "1", account_name |-> "Transport",
        similarity |-> [taxi |-> 60, cash |-> 55]] >>

\* rows with equal scores, a repeated code and a blank name
CatalogTies ==
    << [account_code |-> "5100", account_name |-> "Travel",
        similarity |-> [taxi |-> 70, cash |-> 40]],
       [account_code |-> "5100", account_name |-> "Transport",
        similarity |-> [taxi |-> 90, cash |-> 60]],
       [account_code |-> "5300", account_name |-> "",
        similarity |-> [taxi |-> 100, cash |-> 100]],
       [account_code |-> "5200", account_name |-> "Transport",
        similarity |-> [taxi |-> 70, cash |-> 45]],
       [account_code |-> "1100", account_name |-> "Bank",
        similarity |-> [taxi |-> 70, cash |-> 60]],
       [account_code |-> "5110", account_name |-> "Taxi Expense - HQ",
        similarity |-> [taxi |-> 100, cash |-> 30]] >>

\* what chart_tool.invoke({}) may do: raise, or return {"accounts": rows}
ChartResponses ==
    { [kind |-> "error", accounts |-> <<>>] }
    \cup { [kind |-> "accounts", accounts |-> rows] :
              rows \in {CatalogHQ, CatalogAmbiguous, CatalogMixed, EmptyCatalog} }

\* values a caller may leave in state.chart_of_accounts_override
ChartOverrides == {None, Some(EmptyCatalog), Some(CatalogHQ)}

\* confidence = round(best_score, 4), in percent
Confidence(row, hint) == row.similarity[hint]

\* the loop of rank_account_candidates over the rows, in catalog order
RECURSIVE Scored(_, _, _, _)
Scored(accounts, hint, min_confidence, seen_codes) ==
    IF accounts = <<>> THEN <<>>
    ELSE LET record == Head(accounts) IN
         IF \/ record.account_name = ""
            \/ record.account_code = ""
            \/ record.account_code \in seen_codes
         THEN Scored(Tail(accounts), hint, min_confidence, seen_codes)
         ELSE IF Confidence(record, hint) < min_confidence
         THEN Scored(Tail(accounts), hint, min_confidence, seen_codes)
         ELSE << [account_name |-> record.account_name,
                  account_code |-> record.account_code,
                  confidence |-> Confidence(record, hint)] >>
              \o Scored(Tail(accounts), hint, min_confidence,
                        seen_codes \cup {record.account_code})

\* place c behind every candidate whose confidence is not smaller
RECURSIVE InsertBeforeEqual(_, _)
InsertBeforeEqual(c, sorted) ==
    IF sorted = <<>> THEN <<c>>
    ELSE IF Head(sorted).confidence > c.confidence
    THEN <<Head(sorted)>> \o InsertBeforeEqual(c, Tail(sorted))
    ELSE <<c>> \o sorted

RECURSIVE InsertByConfidence(_, _)
InsertByConfidence(c, sorted) ==
    IF sorted = <<>> THEN <<c>>
    ELSE IF Head(sorted).confidence >= c.confidence
    THEN <<Head(sorted)>> \o InsertByConfidence(c, Tail(sorted))
    ELSE <<c>> \o sorted

\* scored.sort(key=confidence, reverse=True): a stable sort
RECURSIVE SortByConfidence(_)
SortByConfidence(scored) ==
    IF scored = <<>> THEN <<>>
    ELSE InsertByConfidence(scored[Len(scored)],
                            SortByConfidence(SubSeq(scored, 1, Len(scored) - 1)))

rank_account_candidates(hint, accounts, limit, min_confidence) ==
    LET scored == SortByConfidence(Scored(accounts, hint, min_confidence, {})) IN
    IF limit # 0 /\ Len(scored) > limit THEN SubSeq(scored, 1, limit) ELSE scored

_rank_candidates(hint, accounts) ==
    rank_account_candidates(hint, accounts, MAX_ACCOUNT_SUGGESTIONS,
                            MIN_CANDIDATE_CONFIDENCE)

(***************************************************************************)
(*                         CONVERSATION STATE                              *)
(***************************************************************************)
ENTRY_NODE == "conversation_entry"
PARSE_NODE == "parse_expense"
RESOLVE_NODE == "resolve_accounts"
CONFIRM_NODE == "confirm_or_cancel"

Users == {111, 999}

\* ConversationState.append_message without the truncation
append_message_unbounded(history, message) == Append(history, message)

\* ConversationState.append_message
append_message(history, message) ==
    LET appended == Append(history, message) IN
    IF Len(appended) > MAX_RECENT_MESSAGES
    THEN SubSeq(appended, Len(appended) - MAX_RECENT_MESSAGES + 1, Len(appended))
    ELSE appended

\* ConversationState.record_error
record_error_dropped(log, message) == log

record_error_unconditional(log, message) == Append(log, message)

record_error(log, message) ==
    IF message # "" THEN Append(log, message) ELSE log

\* ExpenseDraft.__post_init__ accepts the values
DraftIsValidAnyLength(amount, narration_length) == amount > 0

DraftIsValid(amount, narration_length) ==
    amount > 0 /\ narration_length <= 500

\* hints come from the lower-cased, whitespace-collapsed text; the hints of
\* MessageTable hold no blank, so the slug equals the hint
_placeholder_account_confident(hint, role) ==
    [account_code |-> hint, display_name |-> hint, confidence |-> 100]

_placeholder_account(hint, role) ==
    [account_code |-> hint, display_name |-> hint, confidence |-> 0]

\* the result of a call: the operation, its message argument, what it returned or raised
Outcome(op, arg, result) == [op |-> op, arg |-> arg, result |-> result]

\* a fresh ConversationState behind a graph built with the given allow-list
FreshConversation(allow_list) ==
    /\ messages = <<>>
    /\ expense_draft = None
    /\ clarifications_needed = <<>>
    /\ account_candidates = <<>>
    /\ confirmation_status = "pending"
    /\ erpnext_submission = None
    /\ error_log = <<>>
    /\ pending_message = None
    /\ pending_user_id = None
    /\ chart_of_accounts_override = None
    /\ allowed_users = allow_list
    /\ pc = "idle"
    /\ outcome = Outcome("init", 0, "ok")
    /\ submitted = <<>>
    /\ calls = 0
    /\ accepted = <<>>

ConvInit == \E allow_list \in {{}, {999}} : FreshConversation(allow_list)

\* the fields of the state a node may change
state_fields == <<messages, expense_draft, clarifications_needed, account_candidates,
                  confirmation_status, erpnext_submission, error_log>>

(***************************************************************************)
(*                         GRAPH NODES                                     *)
(***************************************************************************)
\* graph.invoke(state) with the turn's inputs set on the state
StartTurn(m, user_id, override) ==
    /\ pc = "idle"
    /\ pending_message' = Some(m)
    /\ pending_user_id' = user_id
    /\ chart_of_accounts_override' = override
    /\ pc' = ENTRY_NODE
    /\ calls' = calls + 1
    /\ outcome' = Outcome("invoke", m, "running")
    /\ UNCHANGED <<state_fields, allowed_users, submitted, accepted, queue_vars>>

Invoke(m, user_id, override) == calls < MaxCalls /\ StartTurn(m, user_id, override)

\* a turn of a longer thread, its catalog fetched by the chart tool
InvokeInLongThread(m, user_id) == calls < MaxTurns /\ StartTurn(m, user_id, None)

\* the entry node's allow-list test
UnauthorizedMembersOnly(user_id) ==
    allowed_users # {} /\ user_id # None /\ user_id[1] \notin allowed_users

Unauthorized(user_id) ==
    allowed_users # {} /\ (user_id = None \/ user_id[1] \notin allowed_users)

_route_ignoring_clarifications ==
    IF expense_draft # None /\ confirmation_status = "pending"
    THEN "confirm" ELSE "parse"

_route_from_entry ==
    IF /\ expense_draft # None
       /\ clarifications_needed = <<>>
       /\ confirmation_status = "pending"
    THEN "confirm" ELSE "parse"

\* _create_entry_node._node, then the conditional edge out of ENTRY_NODE
EntryNode ==
    /\ pc = ENTRY_NODE
    /\ LET m == pending_message[1]
           message_text == strip(Text(m))
       IN IF message_text = <<>>
          THEN /\ outcome' = Outcome(ENTRY_NODE, m, "ValueError")
               /\ pc' = "idle"
               /\ UNCHANGED <<messages, accepted>>
          ELSE IF Unauthorized(pending_user_id)
          THEN /\ outcome' = Outcome(ENTRY_NODE, m, "PermissionError")
               /\ pc' = "idle"
               /\ UNCHANGED <<messages, accepted>>
          ELSE /\ messages' = append_message(messages, m)
               /\ accepted' = Append(accepted, m)
               /\ outcome' = Outcome(ENTRY_NODE, m, _route_from_entry)
               /\ pc' = IF _route_from_entry = "confirm" THEN CONFIRM_NODE ELSE PARSE_NODE
    /\ UNCHANGED <<expense_draft, clarifications_needed, account_candidates,
                   confirmation_status, erpnext_submission, error_log, pending_message,
                   pending_user_id, chart_of_accounts_override, allowed_users,
                   submitted, calls, queue_vars>>

\* parse_expense_message when the parser reports missing fields: the
\* candidates and the submission are cleared, the sorted missing fields
\* stored and the draft dropped; confirmation_status is not assigned
ClearedKeepingDraft(missing_fields) ==
    [account_candidates |-> <<>>, erpnext_submission |-> None,
     clarifications_needed |-> Sorted(missing_fields, 1),
     expense_draft |-> expense_draft, confirmation_status |-> confirmation_status,
     raised |-> FALSE]

ClearedForClarification(missing_fields) ==
    [account_candidates |-> <<>>, erpnext_submission |-> None,
     clarifications_needed |-> Sorted(missing_fields, 1),
     expense_draft |-> None, confirmation_status |-> confirmation_status,
     raised |-> FALSE]

\* parse_expense_message: the state fields it leaves behind, and whether
\* ExpenseDraft(...) raised after the first three assignments
parse_expense_message(m) ==
    LET parsed == parse_expense_text(m) IN
    IF parsed.missing_fields # {}
    THEN ClearedForClarification(parsed.missing_fields)
    ELSE IF ~DraftIsValid(parsed.amount[1], NarrationLength(m))
    THEN [account_candidates |-> <<>>, erpnext_submission |-> None,
          clarifications_needed |-> <<>>,
          expense_draft |-> expense_draft, confirmation_status |-> confirmation_status,
          raised |-> TRUE]
    ELSE [account_candidates |-> <<>>, erpnext_submission |-> None,
          clarifications_needed |-> <<>>,
          expense_draft |->
              Some([amount |-> parsed.amount[1], currency |-> parsed.currency,
                    debit_account |-> _placeholder_account(parsed.debit_hint, "debit_account"),
                    credit_account |-> _placeholder_account(parsed.credit_hint, "credit_account"),
                    posting_date |-> "today", narration |-> parsed.narration,
                    source_message_id |-> parsed.source_message_id]),
          confirmation_status |-> "pending",
          raised |-> FALSE]

\* _create_parse_node._node
ParseNode ==
    /\ pc = PARSE_NODE
    /\ LET m == pending_message[1] IN
       IF strip(Text(m)) = <<>>
       THEN /\ outcome' = Outcome(PARSE_NODE, m, "ValueError")
            /\ pc' = "idle"
            /\ UNCHANGED <<account_candidates, erpnext_submission, clarifications_needed,
                           expense_draft, confirmation_status, pending_message>>
       ELSE LET after == parse_expense_message(m) IN
            /\ account_candidates' = after.account_candidates
            /\ erpnext_submission' = after.erpnext_submission
            /\ clarifications_needed' = after.clarifications_needed
            /\ expense_draft' = after.expense_draft
            /\ confirmation_status' = after.confirmation_status
            /\ IF after.raised
               THEN /\ outcome' = Outcome(PARSE_NODE, m, "ValueError")
                    /\ pc' = "idle"
                    /\ UNCHANGED pending_message
               ELSE /\ outcome' = Outcome(PARSE_NODE, m, "ok")
                    /\ pc' = RESOLVE_NODE
                    /\ pending_message' = None
    /\ UNCHANGED <<messages, error_log, pending_user_id, chart_of_accounts_override,
                   allowed_users, submitted, calls, accepted, queue_vars>>

\* the characters of the account codes and names of the catalogs
Spelling ==
    ("5110" :> <<"5","1","1","0">>) @@ ("1000" :> <<"1","0","0","0">>)
    @@ ("5100" :> <<"5","1","0","0">>) @@ ("5200" :> <<"5","2","0","0">>)
    @@ ("1100" :> <<"1","1","0","0">>)
    @@ ("Taxi Expense - HQ" :> <<"T","a","x","i"," ","E","x","p","e","n","s","e",
                                 " ","-"," ","H","Q">>)
    @@ ("Cash - HQ" :> <<"C","a","s","h"," ","-"," ","H","Q">>)
    @@ ("Travel" :> <<"T","r","a","v","e","l">>)
    @@ ("Transport" :> <<"T","r","a","n","s","p","o","r","t">>)
    @@ ("Bank" :> <<"B","a","n","k">>)
    @@ ("1" :> <<"1">>) @@ ("2" :> <<"2">>)

Digits == <<"0","1","2","3","4","5","6","7","8","9">>

\* characters str.isdigit() accepts and int() rejects, such as the
\* superscript two; each is written here by its Unicode name
OtherDigits == {"SUPERSCRIPT TWO"}

\* str.isdigit()
isdigit(text) ==
    text # <<>>
    /\ \A i \in 1..Len(text) :
          (\E d \in 1..Len(Digits) : Digits[d] = text[i]) \/ text[i] \in OtherDigits

\* int(text) raises ValueError
int_raises(text) ==
    text = <<>> \/ \E i \in 1..Len(text) : \A d \in 1..Len(Digits) : Digits[d] # text[i]

\* int(text) of a text of decimal digits
RECURSIVE int(_)
int(text) ==
    IF text = <<>> THEN 0
    ELSE 10 * int(SubSeq(text, 1, Len(text) - 1))
         + (CHOOSE d \in 1..Len(Digits) : Digits[d] = text[Len(text)]) - 1

\* debit_choice values: None, "", "1", " 2", "9"
DebitChoices ==
    {None, Some(<<>>), Some(<<"1">>), Some(<<" ","2">>), Some(<<"9">>)}

\* credit_choice values: None, " ", "1100", "BANK", "\u00b2"
CreditChoices ==
    {None, Some(<<" ">>), Some(<<"1","1","0","0">>), Some(<<"B","A","N","K">>),
     Some(<<"SUPERSCRIPT TWO">>)}

\* the candidates whose code or name, lower-cased, is the normalized choice
NamedBy(candidates, normalized) ==
    {i \in 1..Len(candidates) :
        normalized \in {lower(Spelling[candidates[i].account_code]),
                        lower(Spelling[candidates[i].account_name])}}

\* _match_user_choice raises: int(normalized) fails on a text that isdigit()
\* accepted
_match_user_choice_raises(choice) ==
    /\ choice # None
    /\ lower(strip(choice[1])) # <<>>
    /\ isdigit(lower(strip(choice[1])))
    /\ int_raises(lower(strip(choice[1])))

\* _match_user_choice: a 1-based position in the list, else the first
\* candidate whose code or name equals the choice
_match_user_choice(candidates, choice) ==
    IF choice = None \/ choice[1] = <<>> THEN None
    ELSE LET normalized == lower(strip(choice[1])) IN
         IF normalized = <<>> THEN None
         ELSE IF isdigit(normalized) /\ int(normalized) - 1 >= 0
                 /\ int(normalized) - 1 < Len(candidates)
         THEN Some(candidates[int(normalized)])
         ELSE IF NamedBy(candidates, normalized) = {} THEN None
         ELSE Some(candidates[CHOOSE i \in NamedBy(candidates, normalized) :
                                 \A k \in NamedBy(candidates, normalized) : i <= k])

\* _resolve_account: the AccountMatch written into the draft, or None when
\* the role stays unresolved
_resolve_account_preferring_top(candidates, auto_threshold, user_choice) ==
    IF candidates # <<>> /\ candidates[1].confidence >= auto_threshold
    THEN Some([account_code |-> candidates[1].account_code,
               display_name |-> candidates[1].account_name,
               confidence |-> candidates[1].confidence])
    ELSE None

_resolve_account(candidates, auto_threshold, user_choice) ==
    LET match ==
            IF user_choice # None /\ user_choice[1] # <<>>
            THEN _match_user_choice(candidates, user_choice)
            ELSE IF candidates # <<>> /\ candidates[1].confidence >= auto_threshold
            THEN Some(candidates[1])
            ELSE None
    IN IF match = None THEN None
       ELSE Some([account_code |-> match[1].account_code,
                  display_name |-> match[1].account_name,
                  confidence |-> match[1].confidence])

\* unresolved: the roles whose _resolve_account returned False
unresolved_credit_first(debit_match, credit_match) ==
    (IF credit_match = None THEN <<"credit_account">> ELSE <<>>)
    \o (IF debit_match = None THEN <<"debit_account">> ELSE <<>>)

unresolved_roles(debit_match, credit_match) ==
    (IF debit_match = None THEN <<"debit_account">> ELSE <<>>)
    \o (IF credit_match = None THEN <<"credit_account">> ELSE <<>>)

\* select_accounts_for_draft's argument checks pass
SelectArgumentsValid(auto_select_threshold) ==
    /\ expense_draft # None
    /\ auto_select_threshold > 0 /\ auto_select_threshold <= 100

\* select_accounts_for_draft(state, chart_of_accounts=rows, auto_select_threshold,
\* debit_choice, credit_choice) with the other defaults: the fields it writes
select_accounts_for_draft(rows, auto_select_threshold, debit_choice, credit_choice) ==
    LET draft == expense_draft[1]
        parsed == parse_expense_text(draft.narration)
        debit_candidates == _rank_candidates(parsed.debit_hint, rows)
        credit_candidates == _rank_candidates(parsed.credit_hint, rows)
        debit_match == _resolve_account(debit_candidates, auto_select_threshold,
                                        debit_choice)
        credit_match == _resolve_account(credit_candidates, auto_select_threshold,
                                         credit_choice)
        unresolved == unresolved_roles(debit_match, credit_match)
    IN [expense_draft |->
            Some([draft EXCEPT
                    !.debit_account = IF debit_match # None THEN debit_match[1] ELSE @,
                    !.credit_account = IF credit_match # None THEN credit_match[1] ELSE @]),
        clarifications_needed |-> unresolved,
        account_candidates |->
            IF unresolved = <<>> THEN <<>>
            ELSE IF unresolved[1] = "debit_account" THEN debit_candidates
            ELSE credit_candidates,
        error_log |->
            IF unresolved # <<>> /\ rows = <<>>
            THEN record_error(error_log,
                     "Chart of accounts data is unavailable; unable to auto-select ledgers.")
            ELSE error_log]

\* a caller invokes select_accounts_for_draft on the thread's state
SelectAccountsForDraft(rows, auto_select_threshold, debit_choice, credit_choice) ==
    /\ pc = "idle"
    /\ calls < MaxCalls
    /\ calls' = calls + 1
    /\ LET arg == [rows |-> rows, auto_select_threshold |-> auto_select_threshold,
                   debit_choice |-> debit_choice, credit_choice |-> credit_choice]
       IN IF ~SelectArgumentsValid(auto_select_threshold)
             \/ _match_user_choice_raises(debit_choice)
          THEN /\ outcome' = Outcome("select_accounts_for_draft", arg, "ValueError")
               /\ UNCHANGED <<expense_draft, clarifications_needed, account_candidates,
                              error_log>>
          ELSE IF _match_user_choice_raises(credit_choice)
          THEN \* the debit role was already written when the credit choice raised
               /\ expense_draft' =
                      [select_accounts_for_draft(rows, auto_select_threshold,
                                                 debit_choice, None).expense_draft
                          EXCEPT ![1].credit_account = expense_draft[1].credit_account]
               /\ outcome' = Outcome("select_accounts_for_draft", arg, "ValueError")
               /\ UNCHANGED <<clarifications_needed, account_candidates, error_log>>
          ELSE LET after == select_accounts_for_draft(rows, auto_select_threshold,
                                                      debit_choice, credit_choice) IN
               /\ expense_draft' = after.expense_draft
               /\ clarifications_needed' = after.clarifications_needed
               /\ account_candidates' = after.account_candidates
               /\ error_log' = after.error_log
               /\ outcome' = Outcome("select_accounts_for_draft", arg, "ok")
    /\ UNCHANGED <<messages, confirmation_status, erpnext_submission, pending_message,
                   pending_user_id, chart_of_accounts_override, allowed_users, pc,
                   submitted, accepted, queue_vars>>

\* _get_chart_override: the rows of a non-empty override
_get_chart_override ==
    IF chart_of_accounts_override = None \/ chart_of_accounts_override[1] = <<>>
    THEN None
    ELSE chart_of_accounts_override

\* _parse_chart_rows: rows or None
_parse_chart_rows(response) ==
    IF response.accounts = <<>> THEN None ELSE Some(response.accounts)

\* _create_resolve_node._resolve
ResolveNode ==
    /\ pc = RESOLVE_NODE
    /\ \E response \in ChartResponses :
         IF expense_draft = None \/ clarifications_needed # <<>>
         THEN UNCHANGED <<expense_draft, clarifications_needed, account_candidates,
                          error_log, chart_of_accounts_override>>
         ELSE LET override_rows == _get_chart_override
                  chart_rows == IF override_rows # None THEN override_rows
                                ELSE _parse_chart_rows(response)
              IN /\ chart_of_accounts_override' =
                        IF override_rows # None THEN None ELSE chart_of_accounts_override
                 /\ IF override_rows = None /\ response.kind = "error"
                    THEN /\ error_log' = record_error(error_log,
                                "Unable to fetch the chart of accounts right now. Please try again.")
                         /\ UNCHANGED <<expense_draft, clarifications_needed,
                                        account_candidates>>
                    ELSE IF chart_rows = None
                    THEN /\ error_log' = record_error(error_log,
                                "Chart of accounts response was empty.")
                         /\ UNCHANGED <<expense_draft, clarifications_needed,
                                        account_candidates>>
                    ELSE LET after == select_accounts_for_draft(chart_rows[1],
                                              AUTO_SELECTION_THRESHOLD, None, None) IN
                         /\ expense_draft' = after.expense_draft
                         /\ clarifications_needed' = after.clarifications_needed
                         /\ account_candidates' = after.account_candidates
                         /\ error_log' = after.error_log
    /\ pc' = "idle"
    /\ outcome' = Outcome(RESOLVE_NODE, 0, "ok")
    /\ UNCHANGED <<messages, confirmation_status, erpnext_submission, pending_message,
                   pending_user_id, allowed_users, submitted, calls, accepted, queue_vars>>

\* apply_confirmation_decision: the decision returned and the two fields it writes
apply_confirmation_decision(user_input) ==
    LET normalized == normalize(user_input) IN
    IF normalized = <<>>
    THEN [decision |-> "invalid", confirmation_status |-> confirmation_status,
          error_log |-> record_error(error_log, "Confirmation input is required.")]
    ELSE IF normalized \in CONFIRM_COMMANDS
    THEN IF expense_draft = None
         THEN [decision |-> "invalid", confirmation_status |-> confirmation_status,
               error_log |-> record_error(error_log, "There is no expense draft to approve.")]
         ELSE [decision |-> "approved", confirmation_status |-> "approved",
               error_log |-> error_log]
    ELSE IF normalized \in CANCEL_COMMANDS
    THEN [decision |-> "rejected", confirmation_status |-> "rejected",
          error_log |-> error_log]
    ELSE IF normalized \in EDIT_COMMANDS
    THEN [decision |-> "edit", confirmation_status |-> "pending", error_log |-> error_log]
    ELSE [decision |-> "invalid", confirmation_status |-> "pending",
          error_log |-> record_error(error_log,
              "Not a valid confirmation command. Reply with confirm, edit, or cancel.")]

\* cancel_expense_attempt, applied to an error log: the fields it writes
cancel_keeping_draft(log, reason) ==
    [expense_draft |-> expense_draft, account_candidates |-> <<>>,
     clarifications_needed |-> <<>>, confirmation_status |-> "rejected",
     erpnext_submission |-> None, error_log |-> record_error(log, reason)]

cancel_keeping_candidates(log, reason) ==
    [expense_draft |-> None, account_candidates |-> account_candidates,
     clarifications_needed |-> <<>>, confirmation_status |-> "rejected",
     erpnext_submission |-> None, error_log |-> record_error(log, reason)]

cancel_expense_attempt(log, reason) ==
    [expense_draft |-> None, account_candidates |-> <<>>,
     clarifications_needed |-> <<>>, confirmation_status |-> "rejected",
     erpnext_submission |-> None, error_log |-> record_error(log, reason)]

\* _handle_confirmation
ConfirmNode ==
    /\ pc = CONFIRM_NODE
    /\ LET m == pending_message[1]
           user_input == strip(Text(m))
       IN IF user_input = <<>>
          THEN /\ error_log' = record_error(error_log, "Confirmation input is required.")
               /\ outcome' = Outcome(CONFIRM_NODE, m, "invalid")
               /\ UNCHANGED <<expense_draft, account_candidates, clarifications_needed,
                              confirmation_status, erpnext_submission, pending_message>>
          ELSE LET applied == apply_confirmation_decision(user_input)
                   cancelled ==
                       cancel_expense_attempt(applied.error_log,
                           IF applied.decision = "rejected"
                           THEN "User cancelled the expense."
                           ELSE "User requested edits.")
               IN /\ pending_message' = None
                  /\ outcome' = Outcome(CONFIRM_NODE, m, applied.decision)
                  /\ IF applied.decision \in {"rejected", "edit"}
                     THEN /\ expense_draft' = cancelled.expense_draft
                          /\ account_candidates' = cancelled.account_candidates
                          /\ clarifications_needed' = cancelled.clarifications_needed
                          /\ erpnext_submission' = cancelled.erpnext_submission
                          /\ error_log' = cancelled.error_log
                          /\ confirmation_status' =
                                IF applied.decision = "edit" THEN "pending"
                                ELSE cancelled.confirmation_status
                     ELSE /\ confirmation_status' = applied.confirmation_status
                          /\ error_log' = applied.error_log
                          /\ UNCHANGED <<expense_draft, account_candidates,
                                         clarifications_needed, erpnext_submission>>
    /\ pc' = "idle"
    /\ UNCHANGED <<messages, pending_user_id, chart_of_accounts_override, allowed_users,
                   submitted, calls, accepted, queue_vars>>

(***************************************************************************)
(*                         CALLS MADE BETWEEN TURNS                        *)
(***************************************************************************)
\* apply_confirmation_decision(state, user_input=...) called on the state as it stands
ApplyConfirmationDecision(m) ==
    /\ pc = "idle"
    /\ calls < MaxCalls
    /\ LET applied == apply_confirmation_decision(Text(m)) IN
       /\ confirmation_status' = applied.confirmation_status
       /\ error_log' = applied.error_log
       /\ outcome' = Outcome("apply_confirmation_decision", m, applied.decision)
    /\ calls' = calls + 1
    /\ UNCHANGED <<messages, expense_draft, clarifications_needed, account_candidates,
                   erpnext_submission, pending_message, pending_user_id,
                   chart_of_accounts_override, allowed_users, pc, submitted, accepted, queue_vars>>

\* reasons a caller passes to cancel_expense_attempt; None behaves as ""
CancelReasons == {"", "User sent cancel command."}

\* cancel_expense_attempt(state, reason=...) called on the state as it stands
CancelExpenseAttempt(reason) ==
    /\ pc = "idle"
    /\ calls < MaxCalls
    /\ LET cancelled == cancel_expense_attempt(error_log, reason) IN
       /\ expense_draft' = cancelled.expense_draft
       /\ account_candidates' = cancelled.account_candidates
       /\ clarifications_needed' = cancelled.clarifications_needed
       /\ confirmation_status' = cancelled.confirmation_status
       /\ erpnext_submission' = cancelled.erpnext_submission
       /\ error_log' = cancelled.error_log
    /\ outcome' = Outcome("cancel_expense_attempt", reason, "ok")
    /\ calls' = calls + 1
    /\ UNCHANGED <<messages, pending_message, pending_user_id, chart_of_accounts_override,
                   allowed_users, pc, submitted, accepted, queue_vars>>

\* messages a caller passes to state.record_error
ErrorMessages == {"", "Ledger rejected the entry."}

\* state.record_error(message) called on the state as it stands
RecordError(message) ==
    /\ pc = "idle"
    /\ calls < MaxCalls
    /\ error_log' = record_error(error_log, message)
    /\ outcome' = Outcome("record_error", message, "ok")
    /\ calls' = calls + 1
    /\ UNCHANGED <<messages, expense_draft, clarifications_needed, account_candidates,
                   confirmation_status, erpnext_submission, pending_message,
                   pending_user_id, chart_of_accounts_override, allowed_users, pc,
                   submitted, accepted, queue_vars>>

\* extra_payload values: None, an extra field, a replacement of the account lines
ExtraPayloads == { <<>>, [company |-> "Cuenta HQ"], [accounts |-> <<>>] }

\* _build_journal_entry_payload; payload.update(extra_payload) lets extra keys win
_build_journal_entry_payload(draft, extra_payload) ==
    LET payload ==
            [posting_date |-> draft.posting_date,
             user_remark |-> draft.narration,
             accounts |->
                 << [account |-> draft.debit_account.account_code,
                     debit_in_account_currency |-> draft.amount,
                     credit_in_account_currency |-> 0],
                    [account |-> draft.credit_account.account_code,
                     debit_in_account_currency |-> 0,
                     credit_in_account_currency |-> draft.amount] >>]
    IN IF extra_payload # <<>> THEN extra_payload @@ payload ELSE payload

\* the JournalEntryResult the ledger answers with
JournalEntryResult ==
    [journal_entry_id |-> "ACC-JV-0001", posting_date |-> "today",
     voucher_no |-> "ACC-JV-0001"]

\* post_confirmed_expense with the approval test left out
PostingRefusedWithoutDraftOnly == expense_draft = None

\* the two precondition tests of post_confirmed_expense
PostingRefused == expense_draft = None \/ confirmation_status # "approved"

\* post_confirmed_expense that drops the stored result when the ledger fails
post_clearing_submission_on_failure(ledger_available, extra_payload) ==
    /\ pc = "idle"
    /\ IF PostingRefused
       THEN /\ outcome' = Outcome("post_confirmed_expense", 0, "ExpensePostingError")
            /\ UNCHANGED <<erpnext_submission, submitted>>
       ELSE /\ submitted' = Append(submitted,
                               _build_journal_entry_payload(expense_draft[1], extra_payload))
            /\ IF ledger_available
               THEN /\ erpnext_submission' = Some(JournalEntryResult)
                    /\ outcome' = Outcome("post_confirmed_expense", 0, "posted")
               ELSE /\ outcome' = Outcome("post_confirmed_expense", 0, "ERPNextClientError")
                    /\ erpnext_submission' = None
    /\ calls' = calls + 1
    /\ UNCHANGED <<messages, expense_draft, clarifications_needed, account_candidates,
                   confirmation_status, error_log, pending_message, pending_user_id,
                   chart_of_accounts_override, allowed_users, pc, accepted, queue_vars>>

\* post_confirmed_expense(state, erp_client=..., extra_payload=...); the
\* ledger either accepts the entry or is unavailable (ERPNextClientError)
Post(ledger_available, extra_payload) ==
    /\ pc = "idle"
    /\ IF PostingRefused
       THEN /\ outcome' = Outcome("post_confirmed_expense", 0, "ExpensePostingError")
            /\ UNCHANGED <<erpnext_submission, submitted>>
       ELSE /\ submitted' = Append(submitted,
                               _build_journal_entry_payload(expense_draft[1], extra_payload))
            /\ IF ledger_available
               THEN /\ erpnext_submission' = Some(JournalEntryResult)
                    /\ outcome' = Outcome("post_confirmed_expense", 0, "posted")
               ELSE /\ outcome' = Outcome("post_confirmed_expense", 0, "ERPNextClientError")
                    /\ UNCHANGED erpnext_submission
    /\ calls' = calls + 1
    /\ UNCHANGED <<messages, expense_draft, clarifications_needed, account_candidates,
                   confirmation_status, error_log, pending_message, pending_user_id,
                   chart_of_accounts_override, allowed_users, pc, accepted, queue_vars>>

post_confirmed_expense(ledger_available, extra_payload) ==
    calls < MaxCalls /\ Post(ledger_available, extra_payload)

\* a posting call in a longer thread
PostInLongThread(ledger_available, extra_payload) ==
    /\ calls < MaxTurns
    /\ Len(submitted) < MaxPosts
    /\ Post(ledger_available, extra_payload)

Next ==
    \/ \E m \in Messages, u \in {None} \cup {Some(x) : x \in Users},
          o \in ChartOverrides : Invoke(m, u, o)
    \/ EntryNode
    \/ ParseNode
    \/ ResolveNode
    \/ ConfirmNode
    \/ \E m \in Messages : ApplyConfirmationDecision(m)
    \/ \E a \in BOOLEAN, e \in ExtraPayloads : post_confirmed_expense(a, e)

(***************************************************************************)
(*                         SPECIFICATIONS                                  *)
(***************************************************************************)
\* one conversation thread; nothing in the graph or the posting helper
\* touches the retry queue
Init == ConvInit /\ QueueInit

Spec == Init /\ [][Next]_vars

\* one conversation thread over more turns than the message window holds:
\* an expense message, a confirmation reply, a blank message
WindowMessages == {1, 4, 9}

WindowNext ==
    \/ \E m \in WindowMessages, u \in Users : InvokeInLongThread(m, Some(u))
    \/ EntryNode
    \/ ParseNode
    \/ ResolveNode
    \/ ConfirmNode

WindowSpec == Init /\ [][WindowNext]_vars

\* one thread whose accounts are resolved by the graph and by callers of
\* select_accounts_for_draft, with thresholds and user choices of their own
Thresholds == {60, AUTO_SELECTION_THRESHOLD}

ResolveCatalogs == {CatalogHQ, CatalogAmbiguous, CatalogNumbered, EmptyCatalog}

ResolveNext ==
    \/ \E m \in {1, 2} : Invoke(m, Some(999), None)
    \/ EntryNode
    \/ ParseNode
    \/ ResolveNode
    \/ \E rows \in ResolveCatalogs, t \in Thresholds, d \in DebitChoices,
          c \in CreditChoices : SelectAccountsForDraft(rows, t, d, c)
    \/ SelectAccountsForDraft(CatalogHQ, 0, None, None)

ResolveSpec == Init /\ [][ResolveNext]_vars

\* rank_account_candidates called by itself over catalogs, limits and floors
RankCatalogs == {CatalogHQ, CatalogAmbiguous, CatalogMixed, CatalogTies, EmptyCatalog}

Limits == 0..MaxLimit

MinConfidences == {0, MIN_CANDIDATE_CONFIDENCE, 70, 100}

RankAccountCandidates(hint, accounts, limit, min_confidence) ==
    /\ pc = "idle"
    /\ outcome' = Outcome("rank_account_candidates",
                          [hint |-> hint, accounts |-> accounts, limit |-> limit,
                           min_confidence |-> min_confidence],
                          rank_account_candidates(hint, accounts, limit, min_confidence))
    /\ UNCHANGED <<state_fields, pending_message, pending_user_id,
                   chart_of_accounts_override, allowed_users, pc, submitted, calls,
                   accepted, queue_vars>>

RankNext ==
    \E hint \in {"taxi", "cash"}, accounts \in RankCatalogs, limit \in Limits,
       min_confidence \in MinConfidences :
        RankAccountCandidates(hint, accounts, limit, min_confidence)

RankSpec == Init /\ [][RankNext]_vars

\* one thread fed messages at the limits of what ExpenseDraft accepts: a
\* plain expense, a zero amount, narrations of 500 and 501 characters, and
\* the replies that approve or discard a draft
DraftMessages == {1, 3, 4, 7, 10, 11}

DraftNext ==
    \/ \E m \in DraftMessages : Invoke(m, Some(999), Some(CatalogHQ))
    \/ EntryNode
    \/ ParseNode
    \/ ResolveNode
    \/ ConfirmNode

DraftSpec == Init /\ [][DraftNext]_vars

\* one thread in which an expense is entered and approved and the caller
\* posts it, more than once, to a ledger that answers or fails
PostingMessages == {1, 4}

PostingNext ==
    \/ \E m \in PostingMessages : InvokeInLongThread(m, Some(999))
    \/ EntryNode
    \/ ParseNode
    \/ ResolveNode
    \/ ConfirmNode
    \/ \E a \in BOOLEAN, e \in ExtraPayloads : PostInLongThread(a, e)

PostingSpec == Init /\ [][PostingNext]_vars

\* one thread driven by turns of the graph and by callers of the node
\* functions: confirmation decisions, cancellations, recorded errors and
\* account resolution over an ambiguous and an empty catalog
AttemptMessages == {1, 2, 4, 6, 7}

AttemptNext ==
    \/ \E m \in AttemptMessages, o \in {None, Some(CatalogHQ)} : Invoke(m, Some(999), o)
    \/ EntryNode
    \/ ParseNode
    \/ ResolveNode
    \/ ConfirmNode
    \/ \E m \in {4, 8, 9} : ApplyConfirmationDecision(m)
    \/ \E reason \in CancelReasons : CancelExpenseAttempt(reason)
    \/ \E message \in ErrorMessages : RecordError(message)
    \/ \E rows \in {CatalogAmbiguous, EmptyCatalog} :
          SelectAccountsForDraft(rows, AUTO_SELECTION_THRESHOLD, None, None)

AttemptSpec == Init /\ [][AttemptNext]_vars

(***************************************************************************)
(*                         TELEGRAM AUTHORIZATION                          *)
(* An update carries up to three places a user id can be read from.  The   *)
(* denial callback returns normally (_default_denied_callback swallows     *)
(* send failures); the handler returns a value or raises.                  *)
(***************************************************************************)
OptionalUserIds == {None} \cup {Some(u) : u \in Users}

Updates ==
    [effective_user : OptionalUserIds, message_from_user : OptionalUserIds,
     callback_from_user : OptionalUserIds]

\* allowed_user_ids values: None, [] and lists of ids
AllowLists == {{}, {111}, {111, 999}}

HandlerResults == {<<"return", "ok">>, <<"return", "None">>, <<"raise", "RuntimeError">>}

\* _extract_user_id: effective_user, else message.from_user, else
\* callback_query.from_user
_extract_user_id(update) ==
    IF update.effective_user # None THEN update.effective_user
    ELSE IF update.message_from_user # None THEN update.message_from_user
    ELSE update.callback_from_user

\* _is_authorized
_is_authorized_when_present(allowed_ids, user_id) == user_id # None

_is_authorized(allowed_ids, user_id) ==
    IF user_id = None THEN FALSE ELSE user_id[1] \in allowed_ids

\* _deny: the calls the denial callback receives
_deny(on_denied, update, user_id) ==
    IF on_denied THEN << <<update, user_id>> >> ELSE <<>>

\* TelegramAuthorizationMiddleware(allowed_user_ids, on_denied=...)(handler,
\* update, data): the calls made, data afterwards and how the call ended
TelegramAuthorizationMiddleware(allowed_ids, on_denied, update, handler_result) ==
    LET user_id == _extract_user_id(update) IN
    IF ~_is_authorized(allowed_ids, user_id)
    THEN [denied_calls |-> _deny(on_denied, update, user_id),
          handler_calls |-> <<>>,
          data |-> <<>>,
          ended |-> <<"raise", "ApplicationHandlerStop">>]
    ELSE [denied_calls |-> <<>>,
          handler_calls |-> << <<update, [authorized_user_id |-> user_id[1]]>> >>,
          data |-> [authorized_user_id |-> user_id[1]],
          ended |-> handler_result]

\* one update passes through the middleware
MiddlewareCall(allowed_ids, on_denied, update, handler_result) ==
    /\ pc = "idle"
    /\ outcome' = Outcome("TelegramAuthorizationMiddleware",
                          [allowed_ids |-> allowed_ids, on_denied |-> on_denied,
                           update |-> update, handler_result |-> handler_result],
                          TelegramAuthorizationMiddleware(allowed_ids, on_denied, update,
                                                          handler_result))
    /\ UNCHANGED <<state_fields, pending_message, pending_user_id,
                   chart_of_accounts_override, allowed_users, pc, submitted, calls,
                   accepted, queue_vars>>

MiddlewareNext ==
    \E allowed_ids \in AllowLists, on_denied \in BOOLEAN, update \in Updates,
       handler_result \in HandlerResults :
        MiddlewareCall(allowed_ids, on_denied, update, handler_result)

MiddlewareSpec == Init /\ [][MiddlewareNext]_vars

\* the retry queue under concurrent workers
QueueSpecInit == QueueInit /\ FreshConversation({})

QueueSpec == QueueSpecInit /\ [][QueueNext]_vars

\* the retry queue with several jobs and no call running inside another:
\* a call starts only when no acquire_due_job is between its two statements
AllIdle == \A w \in Workers : worker[w].pc = "idle"

QueuedIds == 1..MaxQueued

\* the jobs enqueued in this specification
SerialJobs ==
    {job \in RetryJob : job.thread_id = "chat:1" /\ job.payload[1] = "str"}

SerialQueueNext ==
    \/ \E job \in SerialJobs : AllIdle /\ next_id < MaxQueued /\ Insert(job)
    \/ \E j \in QueuedIds : AllIdle /\ get(j)
    \/ \E w \in Workers : AllIdle /\ acquire_due_job_select(w)
    \/ \E w \in Workers : acquire_due_job_update(w)
    \/ \E j \in QueuedIds, w \in Workers, t \in Times :
          AllIdle /\ mark_failure(j, w, "503", t)
    \/ \E j \in QueuedIds, w \in Workers : AllIdle /\ mark_success(j, w)
    \/ \E j \in QueuedIds : AllIdle /\ reset_lock(j)
    \/ AllIdle /\ Tick

SerialQueueSpec == QueueSpecInit /\ [][SerialQueueNext]_vars

(***************************************************************************)
(*                         RETRY WORKER                                    *)
(* The caller of mark_failure supplies next_run_at.  The retry worker that *)
(* does so follows the documented policy: the delays double from one       *)
(* minute and stay inside the policy window; the schedule and the window   *)
(* are the ones tests/bdd/test_foundational_resilience_steps.py fixes.     *)
(***************************************************************************)
SecondsPerMinute == 60

\* RetryScenarioState.queue_retry: self.backoff_schedule = [60, 120, 240, 480]
backoff_schedule_tripling == <<60, 180, 540, 1620>>

backoff_schedule == <<60, 120, 240, 480>>

\* RetryScenarioState.max_window_seconds
max_window_seconds == 15 * 60

\* timedelta(seconds=n) in ticks
Seconds(n) == n * TicksPerSecond

\* the job worker w holds, if any
HeldBy(w) == {j \in DOMAIN retry_jobs : retry_jobs[j].locked_by = w}

\* the ledger call failed: the worker reschedules the job by the next delay
\* of the schedule
retry_worker_reschedule(w) ==
    \E j \in HeldBy(w) :
        /\ retry_jobs[j].attempts < Len(backoff_schedule)
        /\ mark_failure(j, w, "503",
                        clock + Seconds(backoff_schedule[retry_jobs[j].attempts + 1]))

\* the ledger call failed with the schedule used up: the worker reports the
\* terminal failure and removes the job
retry_worker_give_up(w) ==
    \E j \in HeldBy(w) :
        /\ worker[w].pc = "idle"
        /\ retry_jobs[j].attempts >= Len(backoff_schedule)
        /\ delete(j)

\* the ledger call succeeded
retry_worker_posted(w) == \E j \in HeldBy(w) : mark_success(j, w)

\* the deadlines still ahead of the clock
Waiting == {retry_jobs[j].next_run_at : j \in DOMAIN retry_jobs} \ (0..clock)

\* the worker sleeps until the next job is due
retry_worker_sleep ==
    /\ Waiting # {}
    /\ clock' = CHOOSE t \in Waiting : \A u \in Waiting : t <= u
    /\ last' = Call("sleep", 0, EmptyLockId, "ok")
    /\ UNCHANGED <<retry_jobs, next_id, worker, returned, conv_vars>>

\* RetryScenarioState.queue_retry: RetryJob(thread_id, payload,
\* next_run_at = now + timedelta(minutes=1), attempts = 0)
QueuedForRetry ==
    [thread_id |-> "chat:1", payload |-> <<"str", "JE-1">>, attempts |-> 0,
     next_run_at |-> clock + Seconds(SecondsPerMinute), error |-> NULL]

RetryWorkerNext ==
    \/ AllIdle /\ next_id < MaxQueued /\ Insert(QueuedForRetry)
    \/ \E w \in Workers : AllIdle /\ acquire_due_job_select(w)
    \/ \E w \in Workers : acquire_due_job_update(w)
    \/ \E w \in Workers : AllIdle /\ retry_worker_reschedule(w)
    \/ \E w \in Workers : AllIdle /\ retry_worker_give_up(w)
    \/ \E w \in Workers : AllIdle /\ retry_worker_posted(w)
    \/ AllIdle /\ Tick
    \/ AllIdle /\ retry_worker_sleep

RetryWorkerSpec == QueueSpecInit /\ [][RetryWorkerNext]_vars

(***************************************************************************)
(*                         POLLING WORKERS                                 *)
(* Workers that never crash: each polls acquire_due_job, and a worker the  *)
(* job was returned to ends its attempt with mark_success or with          *)
(* mark_failure and a next_run_at later than now.                          *)
(***************************************************************************)
\* the jobs worker w was handed by acquire_due_job and has not released
Holding(w) == {j \in HeldBy(w) : w \in returned[j]}

\* jobs put on the queue: new ones, and ones carrying the attempts of
\* earlier failures
PolledJobs ==
    [thread_id : {"chat:1"}, payload : {<<"str", "JE-1">>},
     attempts : {0, MAX_RETRY_ATTEMPTS}, next_run_at : {clock}, error : {NULL}]

\* the holder's attempt failed: mark_failure with next_run_at one second on
polling_worker_failed(w) ==
    \E j \in Holding(w) : mark_failure(j, w, "503", clock + Seconds(1))

\* the holder's attempt succeeded
polling_worker_posted(w) == \E j \in Holding(w) : mark_success(j, w)

PollingNext ==
    \/ \E job \in PolledJobs : AllIdle /\ next_id < MaxQueued /\ Insert(job)
    \/ \E w \in Workers : acquire_due_job_select(w)
    \/ \E w \in Workers : acquire_due_job_update(w)
    \/ \E w \in Workers : polling_worker_failed(w)
    \/ \E w \in Workers : polling_worker_posted(w)
    \/ retry_worker_sleep

\* weak fairness: every worker keeps polling and ends the attempts it
\* holds, and the clock keeps advancing
PollingFairness ==
    /\ \A w \in Workers :
          /\ WF_vars(acquire_due_job_select(w))
          /\ WF_vars(acquire_due_job_update(w))
          /\ WF_vars(polling_worker_failed(w) \/ polling_worker_posted(w))
    /\ WF_vars(retry_worker_sleep)

PollingSpec == QueueSpecInit /\ [][PollingNext]_vars /\ PollingFairness

(***************************************************************************)
(*                         PROPERTIES: RETRY QUEUE                         *)
(***************************************************************************)

(* C1: under any interleaving of the SELECT and the conditional UPDATE of
   concurrent acquire_due_job calls, a job is returned to at most one worker
   between two releases (mark_failure or reset_lock) of it, and that worker
   is the one recorded as its lock holder. *)
C1_AtMostOneOwner ==
    \A j \in DOMAIN retry_jobs :
        /\ Cardinality(returned[j]) <= 1
        /\ returned[j] # {} => returned[j] = {retry_jobs[j].locked_by}

\* a worker lost the race: its UPDATE matched no row because the other
\* worker had claimed the job after this worker's SELECT
C1_RaceLost ==
    /\ last.op = "acquire_due_job"
    /\ last.result = "None"
    /\ last.job_id \in DOMAIN retry_jobs
    /\ retry_jobs[last.job_id].locked_by \in Workers \ {last.lock_id}

(* C2: a row leaves the queue only through mark_success called by the
   worker holding its lock, or through delete; no call changes the
   thread_id or the payload of a row that stays. *)
C2_NeverSilentlyLost ==
    [][\A j \in DOMAIN retry_jobs :
          /\ j \notin DOMAIN retry_jobs' =>
                \/ /\ last'.op = "mark_success"
                   /\ last'.job_id = j
                   /\ last'.lock_id \in Workers
                   /\ last'.lock_id = retry_jobs[j].locked_by
                \/ /\ last'.op = "delete"
                   /\ last'.job_id = j
          /\ j \in DOMAIN retry_jobs' =>
                /\ retry_jobs'[j].thread_id = retry_jobs[j].thread_id
                /\ retry_jobs'[j].payload = retry_jobs[j].payload]_vars

\* a job that was acquired, failed and then had its lock reset is still queued
C2_SurvivedFailureAndReset ==
    /\ last.op = "reset_lock"
    /\ last.job_id \in DOMAIN retry_jobs
    /\ retry_jobs[last.job_id].attempts >= 1

(* C4: mark_failure and mark_success called with a worker id that does not
   hold the job's lock (another worker holds it, it is unlocked, or the
   row does not exist) raise RetryQueueError and change no row. *)
C4_LockMismatchRejected ==
    [][(/\ last'.op \in {"mark_failure", "mark_success"}
        /\ last'.lock_id \in Workers
        /\ ~(/\ last'.job_id \in DOMAIN retry_jobs
             /\ retry_jobs[last'.job_id].locked_by = last'.lock_id))
       => (last'.result = "RetryQueueError" /\ retry_jobs' = retry_jobs)]_vars

\* a worker was refused on a job that another worker holds
C4_RefusedWhileOtherHolds ==
    /\ last.op \in {"mark_failure", "mark_success"}
    /\ last.result = "RetryQueueError"
    /\ last.job_id \in DOMAIN retry_jobs
    /\ retry_jobs[last.job_id].locked_by \in Workers \ {last.lock_id}

\* the lock holder called mark_failure on its job
HolderMarksFailure ==
    /\ last'.op = "mark_failure"
    /\ last'.lock_id \in Workers
    /\ last'.job_id \in DOMAIN retry_jobs
    /\ retry_jobs[last'.job_id].locked_by = last'.lock_id

(* C15: every row of the retry queue has attempts within 0..5, whatever
   sequence of enqueue, acquire_due_job, mark_failure and reset_lock calls
   was made. *)
C15_AttemptsWithinCap ==
    \A j \in DOMAIN retry_jobs :
        retry_jobs[j].attempts >= 0 /\ retry_jobs[j].attempts <= 5

(* C16 as stated: mark_failure by the lock holder adds exactly 1 to attempts,
   stores the given error and the given next_run_at and releases the lock,
   and the job is then a candidate of acquire_due_job(now) exactly for the
   values of now at or after the given next_run_at. *)
C16_FailureStoresGivenDeadline ==
    [][HolderMarksFailure =>
         LET j == last'.job_id
             given == last'.arg[1]
         IN /\ retry_jobs'[j].attempts = retry_jobs[j].attempts + 1
            /\ retry_jobs'[j].error = given.error
            /\ retry_jobs'[j].next_run_at = given.next_run_at
            /\ retry_jobs'[j].locked_by = NULL
            /\ \A now \in Times :
                   (j \in Due(_serialize_datetime(now))') <=> (now >= given.next_run_at)]_vars

(* C16 amended: mark_failure by the lock holder adds exactly 1 to attempts,
   stores the given error, stores the given next_run_at cut down to whole
   seconds and releases the lock (changing nothing else of the row); the job
   is then a candidate of acquire_due_job(now) exactly for the values of now
   at or after the stored next_run_at. *)
C16_FailureStoresDeadlineInWholeSeconds ==
    [][HolderMarksFailure =>
         LET j == last'.job_id
             given == last'.arg[1]
             stored == given.next_run_at - (given.next_run_at % TicksPerSecond)
         IN /\ retry_jobs'[j] = [retry_jobs[j] EXCEPT !.attempts = @ + 1,
                                                       !.error = given.error,
                                                       !.next_run_at = stored,
                                                       !.locked_by = NULL,
                                                       !.locked_at = None]
            /\ \A now \in Times :
                   (j \in Due(_serialize_datetime(now))') <=> (now >= stored)]_vars

\* a failure was recorded with a deadline that has a fraction of a second,
\* and the job is due again before the deadline that was given
C16_DueBeforeGivenDeadline ==
    /\ last.op = "mark_failure"
    /\ last.result = "job"
    /\ last.arg[1].next_run_at > clock
    /\ last.job_id \in Due(_serialize_datetime(clock))
    /\ retry_jobs[last.job_id].attempts = 1

\* the rows acquire_due_job(now) may take: unlocked, with next_run_at <= now
Candidates == {j \in DOMAIN retry_jobs :
                  retry_jobs[j].locked_by = NULL /\ retry_jobs[j].next_run_at <= clock}

(* C17: acquire_due_job(worker, now) run without a concurrent caller takes
   the unlocked row with next_run_at <= now that has the smallest
   next_run_at (smallest id among equal deadlines), sets its lock holder to
   the caller, leaves every other row alone and returns it (a row whose
   attempts exceed the cap cannot be read back: the call then raises);
   when no unlocked row is due it returns None and changes no row. *)
C17_AcquireEarliestDue ==
    [][/\ (AllIdle /\ last'.op \in {"acquire_due_job", "acquire_due_job.select"}
                   /\ last'.lock_id \in Workers)
          => /\ (Candidates = {}) <=> (last'.result = "None")
             /\ retry_jobs' = retry_jobs
       /\ \A w \in Workers : worker[w].pc = "selected" =>
             LET j == worker[w].job_id IN
             /\ j \in Candidates
             /\ \A k \in Candidates :
                   \/ retry_jobs[j].next_run_at < retry_jobs[k].next_run_at
                   \/ (retry_jobs[j].next_run_at = retry_jobs[k].next_run_at /\ j <= k)
             /\ retry_jobs' = [retry_jobs EXCEPT ![j].locked_by = w,
                                                 ![j].locked_at = retry_jobs'[j].locked_at]
             /\ last'.op = "acquire_due_job"
             /\ last'.job_id = j
             /\ IF retry_jobs[j].attempts <= 5
                THEN /\ last'.result = "job"
                     /\ last'.job[1].id = j
                     /\ last'.job[1].next_run_at <= clock
                ELSE last'.result = "ValueError"]_vars

\* the second job has the earlier deadline and was acquired before the first
C17_LaterIdEarlierDeadline ==
    /\ last.op = "acquire_due_job"
    /\ last.result = "job"
    /\ last.job_id = 2
    /\ 1 \in DOMAIN retry_jobs
    /\ retry_jobs[1].locked_by = NULL
    /\ retry_jobs[1].next_run_at <= clock
    /\ retry_jobs[2].next_run_at < retry_jobs[1].next_run_at

(* C18: enqueue stores a new unlocked row with attempts = 0, the given
   next_run_at, thread_id and payload, under an id not used before, and
   returns the job with that id. *)
C18_EnqueueStoresFreshJob ==
    [][last'.op = "enqueue" /\ next_id' = next_id + 1 =>
         LET j == next_id'
             given == last'.arg[1]
         IN /\ j \notin DOMAIN retry_jobs
            /\ j \in DOMAIN retry_jobs'
            /\ retry_jobs'[j].attempts = 0
            /\ retry_jobs'[j].next_run_at = given.next_run_at
            /\ retry_jobs'[j].thread_id = given.thread_id
            /\ retry_jobs'[j].payload = given.payload
            /\ retry_jobs'[j].locked_by = NULL
            /\ last'.job[1].id = j]_vars

(* C19: mark_success by the lock holder deletes the row, and a deleted row
   never comes back: its id stays out of the table, get returns None for it
   and no acquire_due_job, not even one that selected the row before it was
   deleted, returns it. *)
C19_SuccessDeletesForGood ==
    [][/\ (/\ last'.op = "mark_success"
           /\ last'.lock_id \in Workers
           /\ last'.job_id \in DOMAIN retry_jobs
           /\ retry_jobs[last'.job_id].locked_by = last'.lock_id)
          => (last'.result = "ok" /\ last'.job_id \notin DOMAIN retry_jobs')
       /\ \A j \in 1..next_id :
             j \notin DOMAIN retry_jobs =>
                /\ j \notin DOMAIN retry_jobs'
                /\ (last'.op \in {"get", "acquire_due_job"} /\ last'.job_id = j)
                      => last'.result = "None"]_vars

\* the holder reported success and the row is gone
C19_RowGoneAfterSuccess ==
    /\ last.op = "mark_success"
    /\ last.result = "ok"
    /\ last.lock_id \in Workers
    /\ last.job_id \in 1..next_id
    /\ last.job_id \notin DOMAIN retry_jobs

(* C20: a lock is cleared only by reset_lock or by the holder's
   mark_failure, never by the passing of time or by another worker's call,
   and acquire_due_job returns only rows that were unlocked; reset_lock
   changes nothing of the row but the lock fields, after which the row is a
   candidate of acquire_due_job exactly when it is due. *)
C20_LockNeverExpires ==
    [][/\ \A j \in DOMAIN retry_jobs :
             (/\ retry_jobs[j].locked_by \in Workers
              /\ j \in DOMAIN retry_jobs'
              /\ retry_jobs'[j].locked_by # retry_jobs[j].locked_by)
             => \/ (last'.op = "reset_lock" /\ last'.job_id = j)
                \/ /\ last'.op = "mark_failure"
                   /\ last'.job_id = j
                   /\ last'.lock_id = retry_jobs[j].locked_by
       /\ (last'.op = "acquire_due_job" /\ last'.result = "job")
             => retry_jobs[last'.job_id].locked_by = NULL
       /\ (last'.op = "reset_lock" /\ last'.job_id \in DOMAIN retry_jobs)
             => LET j == last'.job_id IN
                /\ retry_jobs' = [retry_jobs EXCEPT ![j].locked_by = NULL,
                                                    ![j].locked_at = None]
                /\ (j \in Due(_serialize_datetime(clock))')
                      <=> (retry_jobs[j].next_run_at <= clock)]_vars

\* long after a worker locked the job, another worker asked and got nothing
C20_StillLockedLater ==
    /\ last.op = "acquire_due_job"
    /\ last.result = "None"
    /\ last.lock_id \in Workers
    /\ clock = MaxTime
    /\ \E j \in DOMAIN retry_jobs :
          /\ retry_jobs[j].locked_by \in Workers \ {last.lock_id}
          /\ retry_jobs[j].locked_at = Some(0)
          /\ retry_jobs[j].next_run_at <= clock

(* C21: the delays by which next_run_at is pushed out after the first,
   second, third and fourth consecutive failure of a job are exactly 1, 2, 4
   and 8 minutes, and their running total never exceeds the 15-minute policy
   ceiling. *)
C21_BackoffDoublesWithinWindow ==
    [][HolderMarksFailure =>
         LET j == last'.job_id
             failures == retry_jobs[j].attempts + 1
             delay == last'.arg[1].next_run_at - clock
             minutes == [k \in 1..4 |-> IF k = 1 THEN 1 ELSE IF k = 2 THEN 2
                                        ELSE IF k = 3 THEN 4 ELSE 8]
             total == [k \in 1..4 |-> IF k = 1 THEN 1 ELSE IF k = 2 THEN 3
                                      ELSE IF k = 3 THEN 7 ELSE 15]
         IN failures \in 1..4
              => /\ delay = minutes[failures] * 60 * TicksPerSecond
                 /\ total[failures] * 60 <= max_window_seconds
                 /\ retry_jobs'[j].next_run_at
                        = _serialize_datetime(clock + delay)]_vars

\* a job failed four times in a row and was pushed out by 8 minutes
C21_FourthFailureScheduled ==
    /\ last.op = "mark_failure"
    /\ last.result = "job"
    /\ last.job_id \in DOMAIN retry_jobs
    /\ retry_jobs[last.job_id].attempts = 4
    /\ last.arg[1].next_run_at = clock + 8 * 60 * TicksPerSecond

(***************************************************************************)
(*                         PROPERTIES: CONVERSATION                        *)
(***************************************************************************)
\* the confirmation handler ran as a node of the graph
ConfirmStep == pc = CONFIRM_NODE /\ pc' = "idle"

\* apply_confirmation_decision was called on the state directly
DirectApplyStep ==
    pc = "idle" /\ calls' = calls + 1 /\ outcome'.op = "apply_confirmation_decision"

\* the reply the step handled, trimmed and lower-cased
Command == lower(strip(Text(outcome'.arg)))

BothAccountsResolved ==
    /\ expense_draft # None
    /\ expense_draft[1].debit_account.confidence > 0
    /\ expense_draft[1].credit_account.confidence > 0

(* C3: when post_confirmed_expense is called on an approved draft and the
   ledger is unavailable, a RetryJob with the submitted payload, attempts = 0
   and next_run_at = now + 1 minute is in the retry queue afterwards. *)
C3_FailedPostIsQueued ==
    (outcome.op = "post_confirmed_expense" /\ outcome.result = "ERPNextClientError")
        => \E j \in DOMAIN retry_jobs :
              /\ retry_jobs[j].attempts = 0
              /\ retry_jobs[j].next_run_at = clock + 60 * TicksPerSecond
              /\ retry_jobs[j].locked_by = NULL

(* C11: when the parse step raises ValueError (the parsed amount is not
   positive), expense_draft, clarifications_needed, account_candidates,
   erpnext_submission and confirmation_status all equal their values from
   before the step. *)
C11_FailedParseLeavesNoPartialState ==
    [][(pc = PARSE_NODE /\ outcome'.op = PARSE_NODE /\ outcome'.result = "ValueError")
       => UNCHANGED <<expense_draft, clarifications_needed, account_candidates,
                      erpnext_submission, confirmation_status>>]_vars

\* post_confirmed_expense was called on the state
PostStep ==
    pc = "idle" /\ calls' = calls + 1 /\ outcome'.op = "post_confirmed_expense"

(* C12: post_confirmed_expense called while expense_draft is absent or
   confirmation_status is not approved raises ExpensePostingError, submits
   nothing to the ledger client and changes no field of the state. *)
C12_PostRequiresApprovedDraft ==
    [][(PostStep /\ (expense_draft = None \/ confirmation_status # "approved"))
       => /\ outcome'.result = "ExpensePostingError"
          /\ submitted' = submitted
          /\ UNCHANGED state_fields]_vars

\* a post was refused on a draft that exists but is not approved
C12_RefusedUnapprovedDraft ==
    /\ outcome.op = "post_confirmed_expense"
    /\ outcome.result = "ExpensePostingError"
    /\ expense_draft # None
    /\ confirmation_status # "approved"
    /\ submitted = <<>>

(* C13: every payload submitted to the ledger client has exactly two
   account lines, the first debiting and the second crediting the same
   nonzero amount with the opposite side zero, and the payload just
   submitted names the draft's debit and credit accounts. *)
C13_SubmittedPayloadBalanced ==
    /\ \A i \in 1..Len(submitted) :
          LET lines == submitted[i].accounts IN
          /\ Len(lines) = 2
          /\ lines[1].debit_in_account_currency > 0
          /\ lines[1].credit_in_account_currency = 0
          /\ lines[2].debit_in_account_currency = 0
          /\ lines[2].credit_in_account_currency = lines[1].debit_in_account_currency
    /\ (outcome.op = "post_confirmed_expense" /\ outcome.result # "ExpensePostingError")
          => LET lines == submitted[Len(submitted)].accounts IN
             /\ lines[1].account = expense_draft[1].debit_account.account_code
             /\ lines[2].account = expense_draft[1].credit_account.account_code
             /\ lines[1].debit_in_account_currency = expense_draft[1].amount

(* C14: the message history never holds more than 6 messages and is the
   last min(n, 6) of the n user messages accepted so far, in arrival order;
   so each accepted turn, routed to parse or to confirm, appended exactly
   one message and the oldest was evicted first. *)
C14_MessageWindow ==
    LET n == Len(accepted)
        kept == IF n < 6 THEN n ELSE 6
    IN /\ Len(messages) <= 6
       /\ messages = SubSeq(accepted, n - kept + 1, n)

\* a seventh accepted message evicted the oldest one
C14_OldestEvicted ==
    /\ Len(accepted) > 6
    /\ Len(messages) = 6
    /\ messages[1] = accepted[Len(accepted) - 5]

(* C5: with a non-empty allow-list, a turn (carrying a message) whose user
   id is absent or not a member ends in PermissionError at the entry node
   and leaves messages, expense_draft, clarifications_needed,
   account_candidates, confirmation_status and error_log as they were. *)
C5_DeniedTurnMutatesNothing ==
    [][(/\ pc = ENTRY_NODE
        /\ strip(Text(pending_message[1])) # <<>>
        /\ allowed_users # {}
        /\ (pending_user_id = None \/ pending_user_id[1] \notin allowed_users))
       => (/\ outcome'.result = "PermissionError"
           /\ pc' = "idle"
           /\ UNCHANGED <<messages, expense_draft, clarifications_needed,
                          account_candidates, confirmation_status, error_log>>)]_vars

\* a turn was denied on a thread that holds a draft
C5_DeniedWithDraft ==
    /\ outcome.op = ENTRY_NODE
    /\ outcome.result = "PermissionError"
    /\ expense_draft # None

(* C6: after the entry gate a turn goes to the confirmation handler exactly
   when a draft is present, clarifications_needed is empty and
   confirmation_status is pending; otherwise it goes to parse, and parse is
   followed by resolve (unless the parse step raises), after which the
   turn ends. *)
C6_Routing ==
    [][/\ (pc = ENTRY_NODE /\ pc' # "idle") =>
             /\ pc' \in {CONFIRM_NODE, PARSE_NODE}
             /\ pc' = CONFIRM_NODE <=>
                   (/\ expense_draft # None
                    /\ clarifications_needed = <<>>
                    /\ confirmation_status = "pending")
       /\ pc = PARSE_NODE =>
             \/ pc' = RESOLVE_NODE
             \/ (pc' = "idle" /\ outcome'.result = "ValueError")
       /\ pc \in {RESOLVE_NODE, CONFIRM_NODE} => pc' = "idle"]_vars

\* a turn on a thread whose draft still waits for a clarification goes to parse
C6_DraftWithClarificationParsed ==
    /\ pc = PARSE_NODE
    /\ expense_draft # None
    /\ clarifications_needed # <<>>
    /\ confirmation_status = "pending"

(* C7: whenever a turn is handled by the confirmation handler, both the
   debit and the credit account of the draft are resolved matches
   (confidence above 0), so no draft is approved with a placeholder. *)
C7_ConfirmingMeansResolved ==
    pc = CONFIRM_NODE => BothAccountsResolved

(* C8: a reply that, trimmed and lower-cased, is a confirm synonym sets
   confirmation_status to approved and keeps the draft when a draft exists;
   without a draft the decision is invalid, one error is recorded and the
   status is left as it was. *)
C8_ConfirmApproves ==
    [][((ConfirmStep \/ DirectApplyStep) /\ Command \in CONFIRM_COMMANDS)
       => IF expense_draft # None
          THEN /\ outcome'.result = "approved"
               /\ confirmation_status' = "approved"
               /\ expense_draft' = expense_draft
          ELSE /\ outcome'.result = "invalid"
               /\ confirmation_status' = confirmation_status
               /\ Len(error_log') = Len(error_log) + 1
               /\ expense_draft' = None]_vars

\* the graph approved a draft on a reply that needed trimming and lower-casing
C8_ApprovedAfterNormalising ==
    /\ outcome.op = CONFIRM_NODE
    /\ outcome.result = "approved"
    /\ Text(outcome.arg) \notin CONFIRM_COMMANDS
    /\ confirmation_status = "approved"
    /\ expense_draft # None

(* C9: a reply in none of the confirm, cancel and edit vocabularies leaves
   expense_draft, account_candidates and clarifications_needed unchanged,
   appends exactly one error to error_log, and confirmation_status is
   pending afterwards (it was pending, or the reply is not blank). *)
C9_InvalidReplyKeepsPending ==
    [][((ConfirmStep \/ DirectApplyStep)
        /\ Command \notin (CONFIRM_COMMANDS \cup CANCEL_COMMANDS \cup EDIT_COMMANDS))
       => /\ outcome'.result = "invalid"
          /\ UNCHANGED <<expense_draft, account_candidates, clarifications_needed>>
          /\ Len(error_log') = Len(error_log) + 1
          /\ SubSeq(error_log', 1, Len(error_log)) = error_log
          /\ (confirmation_status = "pending" \/ Command # <<>>)
                => confirmation_status' = "pending"]_vars

\* the graph rejected an unknown reply on a pending draft
C9_UnknownReplyOnPendingDraft ==
    /\ outcome.op = CONFIRM_NODE
    /\ outcome.result = "invalid"
    /\ expense_draft # None
    /\ confirmation_status = "pending"
    /\ error_log # <<>>

(* C10: a cancel or edit synonym handled by the confirmation step clears
   expense_draft, account_candidates and clarifications_needed and leaves
   the message history unchanged; confirmation_status is rejected after a
   cancel and pending after an edit. *)
C10_CancelOrEditResets ==
    [][(ConfirmStep /\ Command \in (CANCEL_COMMANDS \cup EDIT_COMMANDS))
       => /\ expense_draft' = None
          /\ account_candidates' = <<>>
          /\ clarifications_needed' = <<>>
          /\ messages' = messages
          /\ Command \in CANCEL_COMMANDS => confirmation_status' = "rejected"
          /\ Command \in EDIT_COMMANDS => confirmation_status' = "pending"]_vars

\* an edit reply discarded the draft and left the thread collecting again
C10_EditDiscardedDraft ==
    /\ outcome.op = CONFIRM_NODE
    /\ outcome.result = "edit"
    /\ expense_draft = None
    /\ confirmation_status = "pending"
    /\ messages # <<>>

(***************************************************************************)
(*                         PROPERTIES: ACCOUNT RESOLUTION                  *)
(***************************************************************************)
\* a call of select_accounts_for_draft returned
SelectStep ==
    /\ calls' = calls + 1
    /\ outcome'.op = "select_accounts_for_draft"
    /\ outcome'.result = "ok"

\* no choice was passed for a role
NoChoice(choice) == choice = None \/ choice[1] = <<>>

\* the choice names the candidate at position i: by the position, the code
\* or the name, ignoring case and surrounding blanks
ChoiceNames(choice, candidates, i) ==
    LET wanted == lower(strip(choice[1])) IN
    \/ wanted = <<Digits[i + 1]>>
    \/ wanted = lower(Spelling[candidates[i].account_code])
    \/ wanted = lower(Spelling[candidates[i].account_name])

\* the account a candidate becomes in the draft
AsAccount(candidate) ==
    [account_code |-> candidate.account_code, display_name |-> candidate.account_name,
     confidence |-> candidate.confidence]

\* the ranked candidates of a role for the draft the call was made on
RoleCandidates(role) ==
    _rank_candidates(IF role = "debit_account"
                     THEN parse_expense_text(expense_draft[1].narration).debit_hint
                     ELSE parse_expense_text(expense_draft[1].narration).credit_hint,
                     outcome'.arg.rows)

RoleChoice(role) ==
    IF role = "debit_account" THEN outcome'.arg.debit_choice
    ELSE outcome'.arg.credit_choice

RoleAccount(draft, role) ==
    IF role = "debit_account" THEN draft[1].debit_account ELSE draft[1].credit_account

InSeq(x, seq) == \E i \in 1..Len(seq) : seq[i] = x

(* C22: in select_accounts_for_draft, for each role independently: without a
   user choice the top-ranked candidate is written into the draft exactly
   when its confidence is at least the auto-select threshold (otherwise the
   role stays unresolved and its account untouched); with a user choice the
   role is resolved only by a candidate the choice names, even when the top
   candidate is above the threshold. *)
C22_AutoAcceptOrUserChoice ==
    [][SelectStep =>
         \A role \in {"debit_account", "credit_account"} :
            LET candidates == RoleCandidates(role)
                choice == RoleChoice(role)
                resolved == ~InSeq(role, clarifications_needed')
            IN IF NoChoice(choice)
               THEN IF candidates # <<>>
                       /\ candidates[1].confidence >= outcome'.arg.auto_select_threshold
                    THEN resolved /\ RoleAccount(expense_draft', role) = AsAccount(candidates[1])
                    ELSE ~resolved /\ RoleAccount(expense_draft', role)
                                         = RoleAccount(expense_draft, role)
               ELSE IF resolved
                    THEN \E i \in 1..Len(candidates) :
                            /\ ChoiceNames(choice, candidates, i)
                            /\ RoleAccount(expense_draft', role) = AsAccount(candidates[i])
                    ELSE RoleAccount(expense_draft', role)
                             = RoleAccount(expense_draft, role)]_vars

\* the debit choice named no candidate although the top debit candidate was
\* above the threshold, while the credit role was auto-accepted
C22_ChoiceBlocksAutoAccept ==
    /\ outcome.op = "select_accounts_for_draft"
    /\ outcome.result = "ok"
    /\ outcome.arg.rows = CatalogHQ
    /\ outcome.arg.debit_choice = Some(<<"9">>)
    /\ outcome.arg.credit_choice = None
    /\ clarifications_needed = <<"debit_account">>
    /\ expense_draft[1].credit_account.account_code = "1000"
    /\ account_candidates # <<>>
    /\ account_candidates[1].confidence >= outcome.arg.auto_select_threshold

(* C23: re-running account resolution with the same catalog and no user
   choice never changes an already-resolved role: the draft's account for
   that role stays the same and the role does not reappear in
   clarifications_needed, whether the role was resolved by auto-acceptance or
   by an earlier user choice. *)
C23_ReResolutionKeepsResolvedRoles ==
    [][(/\ SelectStep
        /\ outcome.op = "select_accounts_for_draft"
        /\ outcome.result = "ok"
        /\ outcome'.arg.rows = outcome.arg.rows
        /\ outcome'.arg.auto_select_threshold = outcome.arg.auto_select_threshold
        /\ NoChoice(outcome'.arg.debit_choice)
        /\ NoChoice(outcome'.arg.credit_choice))
       => \A role \in {"debit_account", "credit_account"} :
             ~InSeq(role, clarifications_needed)
                => /\ RoleAccount(expense_draft', role) = RoleAccount(expense_draft, role)
                   /\ ~InSeq(role, clarifications_needed')]_vars

\* a role is resolved when the call named a candidate for it or auto-accepted
RoleResolved(role) ==
    LET candidates == RoleCandidates(role)
        choice == RoleChoice(role)
    IN IF NoChoice(choice)
       THEN candidates # <<>>
            /\ candidates[1].confidence >= outcome'.arg.auto_select_threshold
       ELSE \E i \in 1..Len(candidates) : ChoiceNames(choice, candidates, i)

(* C30: after select_accounts_for_draft returns, clarifications_needed lists
   exactly the roles left unresolved, debit_account before credit_account,
   and account_candidates is the ranked candidate list of the first
   unresolved role, or empty when both roles are resolved. *)
C30_ClarificationsListUnresolvedRoles ==
    [][SelectStep =>
         LET left == (IF RoleResolved("debit_account") THEN <<>> ELSE <<"debit_account">>)
                     \o (IF RoleResolved("credit_account") THEN <<>>
                         ELSE <<"credit_account">>)
         IN /\ clarifications_needed' = left
            /\ account_candidates' = IF left = <<>> THEN <<>>
                                     ELSE RoleCandidates(left[1])]_vars

\* both roles were left unresolved and the candidates shown are the debit
\* role's, which differ from the credit role's
C30_BothUnresolvedDebitShown ==
    /\ outcome.op = "select_accounts_for_draft"
    /\ outcome.result = "ok"
    /\ outcome.arg.rows = CatalogAmbiguous
    /\ clarifications_needed = <<"debit_account", "credit_account">>
    /\ Len(account_candidates) = 2
    /\ account_candidates[1].account_code = "5100"

(***************************************************************************)
(*                         PROPERTIES: NEW ATTEMPTS AND PARSING            *)
(***************************************************************************)
TerminalStatuses == {"approved", "rejected"}

(* C24: after an attempt has ended approved or rejected, the next accepted
   message starts a new attempt: it is routed to parse and resolve, never to
   the confirmation handler, and after that turn confirmation_status no
   longer carries the previous attempt's approved or rejected value, whether
   or not the new message yields a complete draft. *)
C24_NextMessageStartsNewAttempt ==
    [][/\ (pc = ENTRY_NODE /\ accepted' # accepted
              /\ confirmation_status \in TerminalStatuses)
          => pc' = PARSE_NODE
       /\ (pc = PARSE_NODE /\ outcome'.result = "ok"
              /\ confirmation_status \in TerminalStatuses)
          => confirmation_status' \notin TerminalStatuses
       /\ pc = RESOLVE_NODE => confirmation_status' = confirmation_status]_vars

\* the fields the parser extracted as null from message m
MissingFields(m) ==
    {f \in {"amount", "debit_account", "credit_account"} :
        \/ f = "amount" /\ MessageTable[m].amount = None
        \/ f = "debit_account" /\ MessageTable[m].debit_hint = NULL
        \/ f = "credit_account" /\ MessageTable[m].credit_hint = NULL}

(* C25: when the parser reports a missing field (amount, debit_account or
   credit_account extracted as null), the parse step creates no draft:
   expense_draft is cleared, clarifications_needed holds exactly the missing
   fields, each once, and account_candidates is emptied. *)
C25_MissingFieldsClearDraft ==
    [][(pc = PARSE_NODE /\ outcome'.result = "ok"
           /\ MissingFields(pending_message[1]) # {})
       => /\ expense_draft' = None
          /\ {clarifications_needed'[i] : i \in 1..Len(clarifications_needed')}
                 = MissingFields(pending_message[1])
          /\ Len(clarifications_needed')
                 = Cardinality(MissingFields(pending_message[1]))
          /\ account_candidates' = <<>>]_vars

\* a message without an amount arrived after a message that parsed
\* completely; no draft is left
C25_DraftClearedByIncompleteMessage ==
    /\ outcome.op = PARSE_NODE
    /\ outcome.result = "ok"
    /\ outcome.arg = 2
    /\ expense_draft = None
    /\ clarifications_needed = <<"amount", "credit_account">>
    /\ account_candidates = <<>>
    /\ Len(accepted) >= 2
    /\ accepted[Len(accepted) - 1] = 1

(***************************************************************************)
(*                         PROPERTIES: RANKING                             *)
(***************************************************************************)
\* the catalog row a returned candidate was built from: the first row with
\* its code, name and score
RowOf(candidate, accounts, hint) ==
    CHOOSE k \in 1..Len(accounts) :
        /\ accounts[k].account_code = candidate.account_code
        /\ accounts[k].account_name = candidate.account_name
        /\ accounts[k].similarity[hint] = candidate.confidence
        /\ \A n \in 1..(k - 1) :
              ~(/\ accounts[n].account_code = candidate.account_code
                /\ accounts[n].account_name = candidate.account_name
                /\ accounts[n].similarity[hint] = candidate.confidence)

\* confidence does not increase along the list, equal confidences keep the
\* catalog order, nothing is below the floor
RankedInOrder(result, arg) ==
    /\ \A i \in 1..Len(result) :
          /\ result[i].confidence >= arg.min_confidence
          /\ \E k \in 1..Len(arg.accounts) :
                /\ arg.accounts[k].account_code = result[i].account_code
                /\ arg.accounts[k].account_name = result[i].account_name
                /\ arg.accounts[k].similarity[arg.hint] = result[i].confidence
    /\ \A i \in 1..Len(result), j \in 1..Len(result) :
          i < j => /\ result[i].confidence >= result[j].confidence
                   /\ result[i].confidence = result[j].confidence
                         => RowOf(result[i], arg.accounts, arg.hint)
                               < RowOf(result[j], arg.accounts, arg.hint)

(* C26 as stated: rank_account_candidates returns candidates in
   non-increasing confidence order with equal-confidence candidates in
   catalog order, only candidates whose confidence is at least
   min_confidence, and at most limit of them for every non-negative limit. *)
C26_RankedWithinLimit ==
    outcome.op = "rank_account_candidates"
        => /\ RankedInOrder(outcome.result, outcome.arg)
           /\ Len(outcome.result) <= outcome.arg.limit

(* C26 amended: rank_account_candidates returns candidates in non-increasing
   confidence order with equal-confidence candidates in catalog order, only
   candidates whose confidence is at least min_confidence, and at most limit
   of them for every positive limit; a limit of 0 does not shorten the
   list. *)
C26_RankedWithinPositiveLimit ==
    outcome.op = "rank_account_candidates"
        => /\ RankedInOrder(outcome.result, outcome.arg)
           /\ outcome.arg.limit > 0 => Len(outcome.result) <= outcome.arg.limit
           /\ outcome.arg.limit = 0
                 => outcome.result
                      = rank_account_candidates(outcome.arg.hint, outcome.arg.accounts,
                                                Len(outcome.arg.accounts) + 1,
                                                outcome.arg.min_confidence)

\* three rows tie behind the best one and the limit cuts the last of them
C26_TieCutByLimit ==
    /\ outcome.op = "rank_account_candidates"
    /\ outcome.arg.accounts = CatalogTies
    /\ outcome.arg.hint = "taxi"
    /\ outcome.arg.limit = 3
    /\ Len(outcome.result) = 3
    /\ outcome.result[2].confidence = outcome.result[3].confidence
    /\ outcome.result[2].account_code = "5100"
    /\ outcome.result[3].account_code = "5200"

(***************************************************************************)
(*                         PROPERTIES: DRAFT                               *)
(***************************************************************************)
\* an account of the draft is set: it has a code and a name
AccountSet(account) ==
    /\ DOMAIN account = {"account_code", "display_name", "confidence"}
    /\ account.account_code # NULL /\ account.account_code # ""
    /\ account.display_name # NULL /\ account.display_name # ""

(* C27: in every state a step leads to (the thread starts without a draft)
   expense_draft is non-null only
   if its amount is greater than 0, its narration has at most 500 characters
   and both its accounts are set; constructing an ExpenseDraft (the parse
   step on a message with no missing field) succeeds exactly when
   amount > 0 and the narration has at most 500 characters. *)
C27_DraftOnlyIfValid ==
    [][/\ expense_draft' # None
            => /\ expense_draft'[1].amount > 0
               /\ Len(strip(Text(expense_draft'[1].narration))) <= 500
               /\ AccountSet(expense_draft'[1].debit_account)
               /\ AccountSet(expense_draft'[1].credit_account)
       /\ (pc = PARSE_NODE /\ strip(Text(pending_message[1])) # <<>>
              /\ MessageTable[pending_message[1]].amount # None
              /\ MessageTable[pending_message[1]].debit_hint # NULL
              /\ MessageTable[pending_message[1]].credit_hint # NULL)
          => LET m == pending_message[1]
                 valid == MessageTable[m].amount[1] > 0 /\ Len(strip(Text(m))) <= 500
             IN IF valid
                THEN /\ outcome'.result = "ok"
                     /\ expense_draft' # None
                     /\ expense_draft'[1].narration = m
                ELSE /\ outcome'.result = "ValueError"
                     /\ expense_draft' = expense_draft]_vars

\* a narration of exactly 500 characters became a draft, after a narration
\* of 501 characters had been refused
C27_LongestNarrationAccepted ==
    /\ expense_draft # None
    /\ expense_draft[1].narration = 10
    /\ Len(strip(Text(10))) = 500
    /\ Len(accepted) >= 2
    /\ accepted[Len(accepted) - 1] = 11

(***************************************************************************)
(*                         PROPERTIES: TELEGRAM AUTHORIZATION              *)
(***************************************************************************)
\* the user id of an update: the first of the three places that holds one
UpdateUserId(update) ==
    IF update.effective_user # None THEN update.effective_user
    ELSE IF update.message_from_user # None THEN update.message_from_user
    ELSE update.callback_from_user

(* C28: TelegramAuthorizationMiddleware never invokes the downstream handler
   for an update whose user id is missing or not in the allow-list: the
   denial callback (when one is configured) is called exactly once, with
   (update, user_id), and ApplicationHandlerStop is raised; for a listed
   user the handler is invoked exactly once, authorized_user_id is recorded
   in data and the call ends as the handler ended. *)
C28_OnlyListedUsersReachHandler ==
    outcome.op = "TelegramAuthorizationMiddleware"
        => LET call == outcome.arg
               done == outcome.result
               user_id == UpdateUserId(call.update)
           IN IF user_id = None \/ user_id[1] \notin call.allowed_ids
              THEN /\ done.handler_calls = <<>>
                   /\ done.denied_calls
                         = IF call.on_denied THEN << <<call.update, user_id>> >> ELSE <<>>
                   /\ done.ended = <<"raise", "ApplicationHandlerStop">>
                   /\ done.data = <<>>
              ELSE /\ Len(done.handler_calls) = 1
                   /\ done.handler_calls[1][1] = call.update
                   /\ done.handler_calls[1][2].authorized_user_id = user_id[1]
                   /\ done.denied_calls = <<>>
                   /\ done.data.authorized_user_id = user_id[1]
                   /\ done.ended = call.handler_result

\* an update whose effective user is not listed was denied although its
\* message came from a listed user
C28_UnlistedEffectiveUserDenied ==
    /\ outcome.op = "TelegramAuthorizationMiddleware"
    /\ outcome.arg.allowed_ids = {111}
    /\ outcome.arg.on_denied
    /\ outcome.arg.update.effective_user = Some(999)
    /\ outcome.arg.update.message_from_user = Some(111)
    /\ outcome.result.handler_calls = <<>>
    /\ Len(outcome.result.denied_calls) = 1
    /\ outcome.result.denied_calls[1][2] = Some(999)
    /\ outcome.result.ended[1] = "raise"

(***************************************************************************)
(*                         PROPERTIES: LOST RACE                           *)
(***************************************************************************)
(* C29: when another worker's claim of the same due job commits between
   this caller's SELECT and its conditional UPDATE, acquire_due_job returns
   nothing to this caller and changes no row: the other worker's locked_by
   and locked_at are not overwritten. *)
C29_LostRaceChangesNothing ==
    [][\A w \in Workers :
          (/\ worker[w].pc = "selected"
           /\ worker'[w].pc = "idle"
           /\ worker[w].job_id \in DOMAIN retry_jobs
           /\ retry_jobs[worker[w].job_id].locked_by \in Workers \ {w})
          => /\ last'.op = "acquire_due_job"
             /\ last'.lock_id = w
             /\ last'.result = "None"
             /\ last'.job = None
             /\ retry_jobs' = retry_jobs
             /\ w \notin returned'[worker[w].job_id]]_vars

\* a caller came back empty-handed from a job that the other worker had
\* locked with a timestamp of its own
C29_OtherWorkersLockIntact ==
    /\ last.op = "acquire_due_job"
    /\ last.result = "None"
    /\ last.job_id \in DOMAIN retry_jobs
    /\ retry_jobs[last.job_id].locked_by \in Workers \ {last.lock_id}
    /\ retry_jobs[last.job_id].locked_at = Some(0)
    /\ clock = MaxTime
    /\ returned[last.job_id] = {retry_jobs[last.job_id].locked_by}

(***************************************************************************)
(*                         PROPERTIES: USER CHOICES                        *)
(***************************************************************************)
\* select_accounts_for_draft was called with a draft and a valid threshold
SelectCall ==
    /\ calls' = calls + 1
    /\ outcome'.op = "select_accounts_for_draft"
    /\ expense_draft # None
    /\ outcome'.arg.auto_select_threshold > 0

\* the text is a decimal integer
DecimalInteger(text) ==
    text # <<>> /\ \A k \in 1..Len(text) : \E d \in 1..10 : Digits[d] = text[k]

\* what the choice selects from the candidates: the candidate at the
\* position it spells, else the first one it names, else nothing
Selected(choice, candidates) ==
    LET wanted == lower(strip(choice[1]))
        named == {i \in 1..Len(candidates) :
                     \/ wanted = lower(Spelling[candidates[i].account_code])
                     \/ wanted = lower(Spelling[candidates[i].account_name])}
    IN IF DecimalInteger(wanted) /\ int(wanted) >= 1 /\ int(wanted) <= Len(candidates)
       THEN {int(wanted)}
       ELSE IF named = {} THEN {}
       ELSE {CHOOSE i \in named : \A k \in named : i <= k}

(* C31: a choice that is a decimal integer i with 1 <= i <= number of
   candidates selects the i-th ranked candidate (the position wins over a
   code made of the same digits); any other non-blank choice selects the
   first candidate whose code or name equals it, ignoring case and
   surrounding blanks; a choice matching nothing leaves the role unresolved;
   matching choices for both roles resolve both and empty
   clarifications_needed. *)
C31_ChoiceSelectsCandidate ==
    [][SelectCall =>
         /\ outcome'.result = "ok"
         /\ \A role \in {"debit_account", "credit_account"} :
               LET choice == RoleChoice(role)
                   candidates == RoleCandidates(role)
               IN (choice # None /\ strip(choice[1]) # <<>>)
                  => IF Selected(choice, candidates) = {}
                     THEN /\ InSeq(role, clarifications_needed')
                          /\ RoleAccount(expense_draft', role)
                                = RoleAccount(expense_draft, role)
                     ELSE /\ ~InSeq(role, clarifications_needed')
                          /\ \A i \in Selected(choice, candidates) :
                                RoleAccount(expense_draft', role) = AsAccount(candidates[i])
         /\ (\A role \in {"debit_account", "credit_account"} :
                /\ RoleChoice(role) # None /\ strip(RoleChoice(role)[1]) # <<>>
                /\ Selected(RoleChoice(role), RoleCandidates(role)) # {})
            => clarifications_needed' = <<>>]_vars

(***************************************************************************)
(*                         PROPERTIES: CATALOG FAILURES                    *)
(***************************************************************************)
FetchFailureMessage ==
    "Unable to fetch the chart of accounts right now. Please try again."

\* the resolve node asked the chart tool for the catalog and the call raised
FetchFailedStep ==
    /\ pc = RESOLVE_NODE
    /\ pc' = "idle"
    /\ expense_draft # None
    /\ clarifications_needed = <<>>
    /\ _get_chart_override = None
    /\ error_log' # error_log
    /\ error_log'[Len(error_log')] = FetchFailureMessage

(* C32: when the catalog fetch fails in the resolve step, exactly one
   user-facing error is appended to error_log, the draft keeps its
   placeholder accounts and every other field, and the next accepted
   message is routed to parse (and from there to resolve) rather than to the
   confirmation handler. *)
C32_FetchFailureIsRetryable ==
    [][FetchFailedStep =>
         /\ error_log' = Append(error_log, FetchFailureMessage)
         /\ expense_draft' = expense_draft
         /\ expense_draft'[1].debit_account.confidence = 0
         /\ expense_draft'[1].credit_account.confidence = 0
         /\ UNCHANGED <<messages, clarifications_needed, account_candidates,
                        confirmation_status, erpnext_submission>>
         /\ _route_from_entry' = "parse"]_vars

UnavailableMessage ==
    "Chart of accounts data is unavailable; unable to auto-select ledgers."

\* select_accounts_for_draft was called with an empty chart of accounts;
\* no candidate exists, so no role can be resolved by the call
EmptyChartCall == SelectCall /\ outcome'.arg.rows = <<>>

(* C33, as stated: account resolution run with an empty chart of accounts
   while at least one role is unresolved raises a distinct configuration
   error. *)
C33_EmptyChartRaises ==
    [][EmptyChartCall => outcome'.result = "ConfigurationError"]_vars

(* C33, amended: account resolution run with an empty chart of accounts
   raises no configuration error; whenever it returns, both roles are listed
   in clarifications_needed, account_candidates is empty and exactly one
   message of its own, "Chart of accounts data is unavailable; unable to
   auto-select ledgers.", is appended to error_log. *)
C33_EmptyChartRecordsError ==
    [][EmptyChartCall =>
         /\ outcome'.result \in {"ok", "ValueError"}
         /\ outcome'.result = "ok" =>
               /\ error_log' = Append(error_log, UnavailableMessage)
               /\ clarifications_needed' = <<"debit_account", "credit_account">>
               /\ account_candidates' = <<>>]_vars

C33_EmptyChartErrorRecorded ==
    /\ outcome.op = "select_accounts_for_draft"
    /\ outcome.result = "ok"
    /\ outcome.arg.rows = <<>>
    /\ error_log # <<>>
    /\ error_log[Len(error_log)] = UnavailableMessage
    /\ clarifications_needed = <<"debit_account", "credit_account">>

(***************************************************************************)
(*                         PROPERTIES: PARSE STEP                          *)
(***************************************************************************)
\* the parse node handles a message for which the parser reports no missing field
CompleteParseStep ==
    /\ pc = PARSE_NODE
    /\ pc' # PARSE_NODE
    /\ strip(Text(pending_message[1])) # <<>>
    /\ MissingFields(pending_message[1]) = {}

\* the draft the parse step builds from message m
NewDraft(m) ==
    [amount |-> MessageTable[m].amount[1],
     currency |-> MessageTable[m].currency,
     narration |-> m,
     source_message_id |-> m,
     posting_date |-> "today",
     debit_account |-> [account_code |-> MessageTable[m].debit_hint,
                        display_name |-> MessageTable[m].debit_hint, confidence |-> 0],
     credit_account |-> [account_code |-> MessageTable[m].credit_hint,
                         display_name |-> MessageTable[m].credit_hint, confidence |-> 0]]

ParseReplacedDraft(m) ==
    /\ expense_draft' = Some(NewDraft(m))
    /\ confirmation_status' = "pending"
    /\ clarifications_needed' = <<>>
    /\ account_candidates' = <<>>
    /\ erpnext_submission' = None

(* C34, as stated: when the parser reports no missing field, the parse step
   replaces expense_draft wholesale with a new draft carrying the parsed
   amount, currency, narration and source message id and two placeholder
   accounts of confidence 0, sets confirmation_status to pending, leaves
   clarifications_needed and account_candidates empty and clears
   erpnext_submission. *)
C34_ParseReplacesDraft ==
    [][CompleteParseStep => ParseReplacedDraft(pending_message[1])]_vars

(* C34, amended: when the parser reports no missing field and the parsed
   amount is positive and the narration has at most 500 characters, the
   parse step replaces expense_draft wholesale with the new draft, sets
   confirmation_status to pending, leaves clarifications_needed and
   account_candidates empty and clears erpnext_submission; otherwise it
   raises ValueError and expense_draft and confirmation_status keep their
   values. *)
C34_ValidParseReplacesDraft ==
    [][CompleteParseStep =>
         LET m == pending_message[1] IN
         IF MessageTable[m].amount[1] > 0 /\ Len(strip(Text(m))) <= 500
         THEN outcome'.result = "ok" /\ ParseReplacedDraft(m)
         ELSE /\ outcome'.result = "ValueError"
              /\ UNCHANGED <<expense_draft, confirmation_status>>]_vars

\* the message after an approval was parsed into a new draft
C34_ApprovedDraftReplaced ==
    /\ pc = RESOLVE_NODE
    /\ Len(accepted) = 3
    /\ accepted[2] = 4
    /\ expense_draft # None
    /\ expense_draft[1].debit_account.confidence = 0
    /\ confirmation_status = "pending"

(***************************************************************************)
(*                         PROPERTIES: ERROR LOG                           *)
(***************************************************************************)
IsPrefix(s, t) == Len(s) <= Len(t) /\ SubSeq(t, 1, Len(s)) = s

(* C35: error_log is append-only: every operation leaves the previous
   error_log as a prefix of the new one, and record_error with an empty
   message appends nothing. *)
C35_ErrorLogAppendOnly ==
    [][/\ IsPrefix(error_log, error_log')
       /\ (calls' = calls + 1 /\ outcome'.op = "record_error" /\ outcome'.arg = "")
             => error_log' = error_log
       /\ (calls' = calls + 1 /\ outcome'.op = "cancel_expense_attempt"
             /\ outcome'.arg = "")
             => error_log' = error_log]_vars

\* an empty message was recorded on a log that holds entries
C35_EmptyMessageOnFilledLog ==
    /\ outcome.op = "record_error"
    /\ outcome.arg = ""
    /\ Len(error_log) = 2

(***************************************************************************)
(*                         PROPERTIES: POLLING WORKERS                     *)
(***************************************************************************)
\* job j waits on the queue, unlocked and due
DueNow(j) ==
    /\ j \in DOMAIN retry_jobs
    /\ retry_jobs[j].locked_by = NULL
    /\ retry_jobs[j].next_run_at <= _serialize_datetime(clock)

\* acquire_due_job returned job j to a worker
Acquired(j) == j \in DOMAIN returned /\ returned[j] # {}

(* C36: no queued job is starved: when no worker crashes (every acquired
   job is followed by its holder's mark_success or by mark_failure with a
   later next_run_at), workers keep polling under weak fairness and the
   clock keeps advancing, every enqueued job is eventually acquired after it
   becomes due, however many times it or other jobs have failed before. *)
C36_NoJobStarved ==
    \A j \in 1..(MaxQueued + 1) : DueNow(j) ~> Acquired(j)

(***************************************************************************)
(*                         PROPERTIES: REPEATED POSTING                    *)
(***************************************************************************)
(* C37: an approved draft is submitted to the ledger at most once: after
   post_confirmed_expense has stored erpnext_submission on the state, a
   further post_confirmed_expense call on the same state does not submit a
   second journal entry. *)
C37_SubmittedAtMostOnce ==
    [][(PostStep /\ erpnext_submission # None) => submitted' = submitted]_vars

(* C38: when the ledger client raises during post_confirmed_expense, the
   error propagates to the caller and the state is unchanged:
   erpnext_submission keeps its previous value, confirmation_status stays
   approved and the draft is intact, so the same post can be attempted
   again. *)
C38_LedgerFailureLeavesState ==
    [][(PostStep /\ ~PostingRefused /\ submitted' # submitted
           /\ outcome'.result # "posted")
       => /\ outcome'.result = "ERPNextClientError"
          /\ UNCHANGED <<erpnext_submission, expense_draft, confirmation_status,
                         clarifications_needed, account_candidates, error_log, messages>>
          /\ confirmation_status' = "approved"
          /\ expense_draft' # None
          /\ ~PostingRefused']_vars

\* the ledger failed on a state that held the result of an earlier post
C38_FailureAfterStoredResult ==
    /\ outcome.op = "post_confirmed_expense"
    /\ outcome.result = "ERPNextClientError"
    /\ erpnext_submission # None
    /\ Len(submitted) = 2

(***************************************************************************)
(*                         PROPERTIES: JOB IDS                             *)
(***************************************************************************)
(* C39: the ids enqueue assigns are unique and strictly increasing in
   enqueue order and are never reused after a job is deleted, so among
   unlocked due jobs with equal next_run_at acquire_due_job hands them out
   in enqueue order. *)
C39_IdsIncreaseAndOrderAcquisition ==
    [][/\ last'.op = "enqueue" =>
             LET j == last'.job_id IN
             /\ j \notin DOMAIN retry_jobs
             /\ j \in DOMAIN retry_jobs'
             /\ j > next_id
             /\ \A k \in DOMAIN retry_jobs : k < j
             /\ next_id' = j
       /\ last'.op # "enqueue" => next_id' = next_id
       /\ (last'.op = "acquire_due_job" /\ last'.result = "job") =>
             LET j == last'.job_id IN
             \A k \in DOMAIN retry_jobs :
                 (retry_jobs[k].locked_by = NULL
                    /\ retry_jobs[k].next_run_at = retry_jobs[j].next_run_at)
                 => j <= k]_vars

\* a job was enqueued after the only earlier job had been deleted, and got a new id
C39_EnqueuedAfterDelete ==
    /\ last.op = "enqueue"
    /\ last.job_id = 2
    /\ DOMAIN retry_jobs = {2}

(***************************************************************************)
(*                         PROPERTIES: CANDIDATES                          *)
(***************************************************************************)
(* C40: in every state reached from a fresh one through parse, resolve,
   confirm and cancel operations, account_candidates is non-empty only if
   clarifications_needed contains debit_account or credit_account. *)
C40_CandidatesOnlyWhileRoleUnresolved ==
    account_candidates # <<>>
        => \/ InSeq("debit_account", clarifications_needed)
           \/ InSeq("credit_account", clarifications_needed)

\* the resolve step left suggestions for a role it could not resolve
C40_SuggestionsForUnresolvedRole ==
    /\ outcome.op = RESOLVE_NODE
    /\ account_candidates # <<>>
    /\ Len(accepted) >= 2

====
